---- MODULE Spec2Model ----
(***************************************************************************)
(* A model of the task-execution control loop of BrowserAgent              *)
(* (src/src/agent/browser_agent.py): execute_task with its simple and      *)
(* complex paths, the action executor, the bounded action history, the     *)
(* per-step recovery chain and the console escalation.                     *)
(*                                                                         *)
(* The browser driver, the language model and the human at the console are *)
(* the environment: every call into them draws its outcome from a small    *)
(* set.  Python calls are modelled as records: a function that may raise   *)
(* returns [raised |-> TRUE, msg |-> ...] or [raised |-> FALSE, ...].       *)
(***************************************************************************)
EXTENDS Integers, Sequences, FiniteSets, TLC

VARIABLES
    action_history,   \* BrowserAgent.action_history
    current_plan,     \* BrowserAgent.current_plan (None or a list of steps)
    plan_step,        \* BrowserAgent.plan_step
    stack,            \* the Python call stack of execute_task invocations
    last_result,      \* what the outermost execute_task returned to its caller
    last_exec,        \* observation: the latest _execute_action call and its outcome
    calls,            \* number of top-level execute_task calls made so far
    faults,           \* number of failures the environment has injected so far
    clock,            \* logical time: int(time.time()) / datetime.now()
    observed,         \* observation: the latest direct call of a helper, its inputs and result
    driver            \* BrowserAgent.driver: the ChromeDriver object and its references

vars == <<action_history, current_plan, plan_step, stack, last_result, last_exec, calls, faults,
          clock, observed, driver>>

----------------------------------------------------------------------------
(* Bounds of the model *)

\* top-level execute_task calls explored
MaxCalls == 2
\* nesting of execute_task (a free-text answer starts a nested task)
MaxDepth == 2
\* failures injected by the environment (driver, model, console) in one run
MaxFaults == 3
\* direct _store_action_history calls explored
MaxStores == 12

(* Program constants *)

\* "Keep only last 10 actions"
HistoryLimit == 10

----------------------------------------------------------------------------
(* Optional values *)

None == [some |-> FALSE]
Some(v) == [some |-> TRUE, val |-> v]
Unset == [unset |-> TRUE]

----------------------------------------------------------------------------
(* Text: Python's str operations on TLA+ strings *)

UpperCase == "ABCDEFGHIJKLMNOPQRSTUVWXYZ"
LowerCase == "abcdefghijklmnopqrstuvwxyz"

LowerChar(c) ==
    IF \E i \in 1..26 : SubSeq(UpperCase, i, i) = c
    THEN LET i == CHOOSE j \in 1..26 : SubSeq(UpperCase, j, j) = c
         IN  SubSeq(LowerCase, i, i)
    ELSE c

RECURSIVE Lower(_)
Lower(s) ==
    IF Len(s) = 0 THEN ""
    ELSE LowerChar(SubSeq(s, 1, 1)) \o Lower(Tail(s))

IsSpace(c) == c = " "

RECURSIVE LStrip(_)
LStrip(s) ==
    IF Len(s) > 0 /\ IsSpace(SubSeq(s, 1, 1)) THEN LStrip(Tail(s)) ELSE s

RECURSIVE RStrip(_)
RStrip(s) ==
    IF Len(s) > 0 /\ IsSpace(SubSeq(s, Len(s), Len(s)))
    THEN RStrip(SubSeq(s, 1, Len(s) - 1))
    ELSE s

Strip(s) == RStrip(LStrip(s))

\* Python's `sub in s`
Contains(s, sub) ==
    \E i \in 1..(Len(s) - Len(sub) + 1) : SubSeq(s, i, i + Len(sub) - 1) = sub

Digits == "0123456789"

\* str(n) for a natural number, as an f-string formats it
RECURSIVE NatStr(_)
NatStr(n) ==
    IF n < 10 THEN SubSeq(Digits, n + 1, n + 1)
    ELSE NatStr(n \div 10) \o SubSeq(Digits, (n % 10) + 1, (n % 10) + 1)

\* an f-string's rendering of an Optional[str]: None prints as "None"
FmtOpt(e) == IF e.some THEN e.val ELSE "None"

\* dict.get(key, default) on a parameters mapping
Get(p, k, d) == IF k \in DOMAIN p THEN p[k] ELSE d

----------------------------------------------------------------------------
(* ActionType, BrowserAction, ActionResult *)

ActionType ==
    {"navigate", "click", "type", "scroll", "wait", "screenshot",
     "get_text", "get_attribute", "execute_script"}

\* variant: screenshot_path follows the filename whether or not the capture succeeded
ActionResultPathFromData(s, d, e, p) ==
    [success |-> s, data |-> d, error |-> e,
     screenshot_path |-> IF d.some /\ "filename" \in DOMAIN d.val THEN Some(d.val.filename) ELSE p]

\* a str in the `data: Any` field; the other payloads are dicts, and the tag keeps
\* payloads of the two Python types comparable
StrData(s) == [str |-> s]

ActionResult(s, d, e, p) ==
    [success |-> s, data |-> d, error |-> e, screenshot_path |-> p]

\* a returned value / a raised exception
Returned(v) == [raised |-> FALSE, msg |-> "", val |-> v]
Raised(m) == [raised |-> TRUE, msg |-> m, val |-> Unset]

\* BrowserAction(**step): pydantic validation of a step descriptor
ValidationMsg == "1 validation error for BrowserAction"

\* variant: the kind of a step descriptor is not validated
MakeBrowserActionUnchecked(step) ==
    IF {"action", "parameters", "description"} \subseteq DOMAIN step
    THEN [raised |-> FALSE, msg |-> "",
          val |-> [action |-> step.action, parameters |-> step.parameters,
                   description |-> step.description]]
    ELSE [raised |-> TRUE, msg |-> ValidationMsg, val |-> [unset |-> TRUE]]

MakeBrowserAction(step) ==
    IF  /\ {"action", "parameters", "description"} \subseteq DOMAIN step
        /\ step.action \in ActionType
    THEN Returned([action |-> step.action, parameters |-> step.parameters,
                   description |-> step.description])
    ELSE Raised(ValidationMsg)

----------------------------------------------------------------------------
(* The environment: outcomes of calls into the browser driver *)

DriverOk == [status |-> "ok", msg |-> "", value |-> "value"]
\* take_screenshot swallowed a capture failure and returned False
DriverFalse == [status |-> "false", msg |-> "", value |-> "value"]
DriverRaise(m) == [status |-> "raise", msg |-> m, value |-> "value"]

\* messages of the exceptions the driver raises (chrome_driver.py)
DriverErrors == {"Page not started"}

\* what a driver call made for an action of this kind can do
DriverOutcomes(kind) ==
    CASE kind = "wait" -> {DriverOk}
      [] kind = "screenshot" -> {DriverOk, DriverFalse} \cup {DriverRaise(m) : m \in DriverErrors}
      [] OTHER -> {DriverOk} \cup {DriverRaise(m) : m \in DriverErrors}

\* ChromeDriver.__init__: no Playwright object is held yet
NewChromeDriver ==
    [playwright |-> None, browser |-> None, context |-> None, page |-> None,
     keep_browser_open |-> FALSE]

----------------------------------------------------------------------------
(* ActionExecutor: BrowserAgent._execute_action *)

PyNone == "<None>"

\* _get_by_method: Playwright takes the discriminator as a lower-cased string
GetByMethod(by_method) == Lower(by_method)

\* str(amount if direction == 'down' else -amount) inside the scroll script
ScrollScript(direction, amount) ==
    "window.scrollBy(0, " \o (IF direction = "down" THEN "" ELSE "-") \o NatStr(amount) \o ");"

\* the call a branch makes for a BrowserAction, with the arguments it computed
DriverCall(action) ==
    LET p == action.parameters
        kind == action.action
    IN
    CASE kind = "navigate" -> [method |-> "navigate_to", url |-> Get(p, "url", PyNone)]
      [] kind = "click" ->
            [method |-> "click_element", by |-> GetByMethod(Get(p, "by", "css")),
             value |-> Get(p, "selector", PyNone)]
      [] kind = "type" ->
            [method |-> "send_keys", by |-> GetByMethod(Get(p, "by", "css")),
             value |-> Get(p, "selector", PyNone), text |-> Get(p, "text", PyNone)]
      [] kind = "screenshot" ->
            [method |-> "take_screenshot", filename |-> Get(p, "filename", "screenshot.png")]
      [] kind = "get_text" ->
            [method |-> "get_text", by |-> GetByMethod(Get(p, "by", "css")),
             value |-> Get(p, "selector", PyNone)]
      [] kind = "get_attribute" ->
            [method |-> "get_attribute", by |-> GetByMethod(Get(p, "by", "css")),
             value |-> Get(p, "selector", PyNone), attribute |-> Get(p, "attribute", PyNone)]
      [] kind = "execute_script" ->
            [method |-> "execute_script", script |-> Get(p, "script", PyNone)]
      [] kind = "wait" -> [method |-> "time.sleep", seconds |-> Get(p, "seconds", 1)]
      [] kind = "scroll" ->
            [method |-> "execute_script",
             script |-> ScrollScript(Get(p, "direction", "down"), Get(p, "amount", 300))]
      [] OTHER -> [method |-> "none"]

\* the body of the try block: one branch per kind, `o` is what the driver call does
Dispatch(action, o) ==
    LET p == action.parameters
        kind == action.action
    IN
    CASE kind = "navigate" ->
            LET url == Get(p, "url", PyNone) IN
            IF o.status = "raise" THEN Raised(o.msg)
            ELSE Returned(ActionResult(TRUE, Some([url |-> url]), None, None))
      [] kind = "click" ->
            LET selector == Get(p, "selector", PyNone)
                by == GetByMethod(Get(p, "by", "css")) IN
            IF o.status = "raise" THEN Raised(o.msg)
            ELSE Returned(ActionResult(TRUE, Some([clicked |-> selector]), None, None))
      [] kind = "type" ->
            LET selector == Get(p, "selector", PyNone)
                text == Get(p, "text", PyNone)
                by == GetByMethod(Get(p, "by", "css")) IN
            IF o.status = "raise" THEN Raised(o.msg)
            ELSE Returned(ActionResult(TRUE, Some([typed |-> text, into |-> selector]), None, None))
      [] kind = "screenshot" ->
            LET filename == Get(p, "filename", "screenshot.png") IN
            IF o.status = "raise" THEN Raised(o.msg)
            ELSE LET success == (o.status = "ok") IN
                 Returned(ActionResult(success, Some([filename |-> filename]), None,
                                       IF success THEN Some(filename) ELSE None))
      [] kind = "get_text" ->
            LET selector == Get(p, "selector", PyNone)
                by == GetByMethod(Get(p, "by", "css")) IN
            IF o.status = "raise" THEN Raised(o.msg)
            ELSE Returned(ActionResult(TRUE, Some([text |-> o.value]), None, None))
      [] kind = "get_attribute" ->
            LET selector == Get(p, "selector", PyNone)
                attribute == Get(p, "attribute", PyNone)
                by == GetByMethod(Get(p, "by", "css")) IN
            IF o.status = "raise" THEN Raised(o.msg)
            ELSE Returned(ActionResult(TRUE, Some([attribute |-> attribute, value |-> o.value]),
                                       None, None))
      [] kind = "execute_script" ->
            LET script == Get(p, "script", PyNone) IN
            IF o.status = "raise" THEN Raised(o.msg)
            ELSE Returned(ActionResult(TRUE, Some([result |-> o.value]), None, None))
      [] kind = "wait" ->
            LET seconds == Get(p, "seconds", 1) IN
            Returned(ActionResult(TRUE, Some([waited |-> seconds]), None, None))
      [] kind = "scroll" ->
            LET direction == Get(p, "direction", "down")
                amount == Get(p, "amount", 300)
                script == ScrollScript(direction, amount) IN
            IF o.status = "raise" THEN Raised(o.msg)
            ELSE Returned(ActionResult(TRUE, Some([scrolled |-> direction, amount |-> amount]),
                                       None, None))
      [] OTHER -> Raised("Unknown action type: " \o kind)

\* variant: _execute_action without its except clause
ExecuteActionPropagates(action, o) == Dispatch(action, o)

\* `except Exception as e: return ActionResult(success=False, error=str(e))`
ExecuteAction(action, o) ==
    LET r == Dispatch(action, o) IN
    IF r.raised THEN Returned(ActionResult(FALSE, None, Some(r.msg), None)) ELSE r

\* the record kept in last_exec for one _execute_action call
ExecRecord(action, o) ==
    [action |-> action, outcome |-> o, call |-> DriverCall(action),
     ret |-> ExecuteAction(action, o)]

----------------------------------------------------------------------------
(* ActionHistory: BrowserAgent._store_action_history *)

HistoryEntry(task, action, result, now) ==
    [task |-> task, action |-> action, result |-> result, timestamp |-> now]

\* variant: h[:n], keeping the oldest entries
FirstN(h, n) == IF Len(h) > n THEN SubSeq(h, 1, n) ELSE h

\* self.action_history[-10:]
LastN(h, n) == IF Len(h) > n THEN SubSeq(h, Len(h) - n + 1, Len(h)) ELSE h

\* variant: the entry is not recorded
StoreActionHistorySkipped(h, task, action, result, now) == h

StoreActionHistory(h, task, action, result, now) ==
    LET appended == Append(h, HistoryEntry(task, action, result, now)) IN
    IF Len(appended) > HistoryLimit THEN LastN(appended, HistoryLimit) ELSE appended

----------------------------------------------------------------------------
(* The environment: tasks, the model collaborator, the human at the console *)

\* task strings given to execute_task by the caller
Tasks == {"click the button", "navigate to x and click y"}

\* what the human types at the console prompt (before .strip().lower())
HumanInputs == {" Skip", "retry", "ABORT", "Press OK", "login then wait"}

\* exceptions of the console (rich import, screenshot, current URL, input at EOF)
ConsoleErrors == {"EOF when reading a line"}

StepClick ==
    [action |-> "click", parameters |-> [selector |-> "#go"], description |-> "Click go"]
StepShot ==
    [action |-> "screenshot", parameters |-> [filename |-> "page.png"],
     description |-> "Capture the page"]
\* a step descriptor whose kind is not an ActionType
StepHover ==
    [action |-> "hover", parameters |-> [selector |-> "#menu"], description |-> "Hover menu"]

\* replies of the model to the multi-step planning prompt, once parsed as JSON
ModelPlans == {<< >>, <<StepShot, StepClick>>, <<StepHover>>}

\* replies of the model to the single-action prompt, once parsed as JSON
ModelActions == {StepClick}

ModelFailed == [ok |-> FALSE]
ModelReply(d) == [ok |-> TRUE, data |-> d]
\* a reply that the model delivers only after more than 30 seconds
ModelLate(d) == [ok |-> TRUE, data |-> d, late |-> TRUE]
Late(reply) == "late" \in DOMAIN reply

\* whether the situation analysis lists obstacles the log line can join
Analyses == {"clean", "unjoinable_obstacles"}
JoinErrorMsg == "sequence item 0: expected str instance, dict found"

\* `', '.join(situation_analysis['potential_obstacles'])` in the log line
LogObstacles(analysis) ==
    IF analysis = "unjoinable_obstacles" THEN Raised(JoinErrorMsg) ELSE Returned(Unset)

\* what an environment outcome costs of the failure budget
Cost(bad) == IF bad THEN 1 ELSE 0

----------------------------------------------------------------------------
(* ActionPlanner *)

\* the prefix of s up to the first whitespace: the regex class [^\s]+
RECURSIVE NonSpacePrefix(_)
NonSpacePrefix(s) ==
    IF Len(s) = 0 \/ IsSpace(SubSeq(s, 1, 1)) THEN ""
    ELSE SubSeq(s, 1, 1) \o NonSpacePrefix(Tail(s))

\* whether the regex https?://[^\s]+ matches at position i of s
UrlAt(s, i) ==
    \/ /\ i + 6 <= Len(s)
       /\ SubSeq(s, i, i + 6) = "http://"
       /\ Len(NonSpacePrefix(SubSeq(s, i + 7, Len(s)))) > 0
    \/ /\ i + 7 <= Len(s)
       /\ SubSeq(s, i, i + 7) = "https://"
       /\ Len(NonSpacePrefix(SubSeq(s, i + 8, Len(s)))) > 0

\* re.search(r'https?://[^\s]+', task): None, or the leftmost match
UrlSearch(s) ==
    IF \E i \in 1..Len(s) : UrlAt(s, i)
    THEN LET i == CHOOSE j \in 1..Len(s) : UrlAt(s, j) /\ \A k \in 1..(j - 1) : ~UrlAt(s, k)
         IN  Some(NonSpacePrefix(SubSeq(s, i, Len(s))))
    ELSE None

FallbackScreenshot ==
    [action |-> "screenshot", parameters |-> [filename |-> "fallback_screenshot.png"],
     description |-> "Taking screenshot for debugging"]

\* variant: the fallback ignores the task text
FallbackActionScreenshotOnly(task) == FallbackScreenshot

\* the except branch of _generate_action_plan
FallbackAction(task) ==
    LET task_lower == Lower(task)
        url_match == UrlSearch(task)
    IN
    IF  /\ \/ Contains(task_lower, "navigate")
           \/ Contains(task_lower, "go to")
           \/ Contains(task_lower, "visit")
        /\ url_match.some
    THEN [action |-> "navigate", parameters |-> [url |-> url_match.val],
          description |-> "Navigating to " \o url_match.val]
    ELSE FallbackScreenshot

\* variant: _generate_action_plan without its except clause
GenerateActionPlanRaises(task, reply) ==
    IF reply.ok /\ ~Late(reply) /\ ~MakeBrowserAction(reply.data).raised
    THEN MakeBrowserAction(reply.data).val
    ELSE Raised("Connection error.")

\* _generate_action_plan: the model's reply parsed into a BrowserAction, or the fallback;
\* signal.alarm(30) raises TimeoutError inside a call that is still waiting for a reply
GenerateActionPlan(task, reply) ==
    IF reply.ok /\ ~Late(reply) /\ ~MakeBrowserAction(reply.data).raised
    THEN MakeBrowserAction(reply.data).val
    ELSE FallbackAction(task)

PlanningFallback ==
    <<[action |-> "screenshot", parameters |-> [filename |-> "planning_fallback.png"],
       description |-> "Taking screenshot for manual analysis"]>>

\* variant: a failed planning call yields an empty plan
GenerateMultiStepPlanEmpty(reply) == IF reply.ok THEN reply.data ELSE << >>

\* _generate_multi_step_plan: the parsed reply as it is, or the one-step fallback;
\* no alarm is set around this call, a reply is taken whenever it arrives
GenerateMultiStepPlan(reply) == IF reply.ok THEN reply.data ELSE PlanningFallback

ComplexIndicators ==
    {"and", "then", "after", "navigate to", "search for", "fill out",
     "login", "register", "purchase", "checkout", "multiple", "several"}

\* variant: the indicators are looked up in the task as typed
IsComplexTaskCaseSensitive(task) ==
    \E indicator \in ComplexIndicators : Contains(task, indicator)

\* _is_complex_task
IsComplexTask(task) ==
    LET task_lower == Lower(task) IN
    \E indicator \in ComplexIndicators : Contains(task_lower, indicator)

----------------------------------------------------------------------------
(* Status introspection: BrowserAgent.get_current_plan_status *)

\* round(a / b, 0) on exact quotients: to the nearest integer, ties to the even one
RoundHalfEven(a, b) ==
    LET q == a \div b
        r == a % b
    IN  IF 2 * r < b THEN q
        ELSE IF 2 * r > b THEN q + 1
        ELSE IF q % 2 = 0 THEN q ELSE q + 1

\* get_current_plan_status() for a stored plan (None or a list) and cursor;
\* progress_percentage is in tenths of a percent: round(x * 100, 1) keeps one decimal
GetCurrentPlanStatus(plan, step) ==
    IF ~plan.some \/ Len(plan.val) = 0
    THEN [has_plan |-> FALSE]
    ELSE [has_plan |-> TRUE,
          total_steps |-> Len(plan.val),
          current_step |-> step + 1,
          progress_percentage |-> RoundHalfEven((step + 1) * 1000, Len(plan.val)),
          current_step_description |->
              IF step < Len(plan.val) THEN plan.val[step + 1].description
              ELSE "Plan completed",
          remaining_steps |-> Len(plan.val) - step - 1]

----------------------------------------------------------------------------
(* TaskController: the frames of execute_task *)

\* one entry of a frame's record of what was done for the current plan step
Event(ev, action, success, note) ==
    [ev |-> ev, action |-> action, success |-> success, note |-> note]

\* the frame of a fresh execute_task(task) call, at the complexity gate
NewFrame(task) ==
    [task |-> task,
     pc |-> IF IsComplexTask(task) THEN "complex_plan" ELSE "simple_analyze",
     complex |-> IsComplexTask(task),
     plan |-> << >>,             \* local `plan`
     step_idx |-> 0,             \* local `step_idx`
     action |-> Unset,           \* local `action`
     result |-> Unset,           \* local `result`
     recovery_result |-> Unset,  \* local `recovery_result`
     user_recovery |-> Unset,    \* local `user_recovery`
     error |-> "",               \* str(e) of the exception this call caught
     ret |-> Unset,              \* the ActionResult being returned
     log |-> << >>,              \* observation: events of the current step
     executed |-> 0,             \* observation: steps whose action was executed
     stored |-> 0,               \* observation: history entries this call appended
     escaped |-> FALSE,          \* an exception is leaving this execute_task call
     probed |-> Unset,           \* observation: the page context in hand (see StepContext)
     fallback |-> FALSE,         \* observation: the plan is the planner's fallback
     replaced_at |-> 0,          \* observation: first step (from 1) answered by free text
     skipped |-> {}]             \* observation: steps (from 1) the human skipped

Depth == Len(stack)
Top == stack[Len(stack)]
Running(pc) == Depth > 0 /\ Top.pc = pc
SetTop(f) == [stack EXCEPT ![Len(stack)] = f]

Failure(msg) == ActionResult(FALSE, None, Some(msg), None)

\* f"Step {step_idx + 1}"
StepLabel(step_idx) == "Step " \o NatStr(step_idx + 1)

\* f"Plan failed at step {step_idx + 1}: {result.error}"
PlanFailed(step_idx, result) ==
    Failure("Plan failed at step " \o NatStr(step_idx + 1) \o ": " \o FmtOpt(result.error))

\* variant: a failed step goes straight to the human
AfterExecuteNoRetry(result) == IF result.success THEN "store" ELSE "ask"

\* where the step loop goes after `result = self._execute_action(action)`
AfterExecute(result) == IF result.success THEN "store" ELSE "recover"

\* variant: the step recovery is repeated until it succeeds
AfterRecoveryAgain(recovery_result) == IF recovery_result.success THEN "store" ELSE "recover"

\* where it goes after `recovery_result = self._recover_from_step_failure(...)`
AfterRecovery(recovery_result) == IF recovery_result.success THEN "store" ELSE "ask"

\* variant: whatever the human's answer led to, the plan is given up
AfterUserAbandons(f, user_recovery) ==
    [f EXCEPT !.user_recovery = user_recovery, !.pc = "return",
              !.ret = PlanFailed(f.step_idx, f.result)]

\* the frame once `user_recovery` is known: fall through to the history, or return
AfterUser(f, user_recovery) ==
    IF user_recovery.success
    THEN [f EXCEPT !.user_recovery = user_recovery, !.pc = "store"]
    ELSE [f EXCEPT !.user_recovery = user_recovery, !.pc = "return",
                   !.ret = PlanFailed(f.step_idx, f.result)]

\* `context = self._get_page_context()` before planning: no step has run yet
PlanContext(f) == [step |-> -1, after |-> f.executed]

\* variant: the context in hand is used again instead of probing the page
StepContextCached(f) == f.probed

\* `step_context = self._get_page_context()` at the head of an iteration: the page as
\* the steps executed so far have left it, captured for step f.step_idx
StepContext(f) == [step |-> f.step_idx, after |-> f.executed]

\* `except Exception as e: return ActionResult(success=False, error=str(e))`
ComplexFailed(f, msg) == [f EXCEPT !.pc = "return", !.ret = Failure(msg), !.error = msg]

\* variant: execute_task without its except clause
SimpleFailedEscapes(f, msg) == [f EXCEPT !.pc = "return", !.escaped = TRUE, !.error = msg]

\* `except Exception as e: return self._recover_from_error(task_description, str(e))`
SimpleFailed(f, msg) == [f EXCEPT !.pc = "recover_error", !.error = msg]

\* variant: a skip that reports failure
SkipResultFails == ActionResult(FALSE, Some(StrData("User skipped step")), None, None)

\* `return ActionResult(success=True, data="User skipped step")`
SkipResult == ActionResult(TRUE, Some(StrData("User skipped step")), None, None)

\* variant: an abort that reports success
AbortResultSucceeds == ActionResult(TRUE, Some(StrData("User aborted task")), None, None)

\* `return ActionResult(success=False, error="User aborted task")`
AbortResult == Failure("User aborted task")

----------------------------------------------------------------------------
(* execute_task is called by the agent's user *)

\* variant: execute_task forgets the stored plan when it is entered
CallResetsPlan(task) ==
    /\ Depth = 0
    /\ calls < MaxCalls
    /\ stack' = <<NewFrame(task)>>
    /\ calls' = calls + 1
    /\ current_plan' = None
    /\ plan_step' = 0
    /\ UNCHANGED <<driver, action_history, last_result, last_exec, faults, clock, observed>>

Call(task) ==
    /\ Depth = 0
    /\ calls < MaxCalls
    /\ stack' = <<NewFrame(task)>>
    /\ calls' = calls + 1
    /\ UNCHANGED <<driver, action_history, current_plan, plan_step, last_result, last_exec,
                   faults, clock, observed>>

----------------------------------------------------------------------------
(* The simple path of execute_task *)

\* probe the context, analyse the situation, log it
SimpleAnalyze(analysis) ==
    /\ Running("simple_analyze")
    /\ faults + Cost(analysis # "clean") <= MaxFaults
    /\ faults' = faults + Cost(analysis # "clean")
    /\ LET logged == LogObstacles(analysis) IN
       stack' = SetTop(IF logged.raised
                       THEN SimpleFailed(Top, logged.msg)
                       ELSE [Top EXCEPT !.pc = "simple_act"])
    /\ UNCHANGED <<driver, action_history, current_plan, plan_step, last_result, last_exec,
                   observed, calls, clock>>

\* plan one action, execute it, append the history entry, return the result
SimpleAct(reply, o) ==
    /\ Running("simple_act")
    /\ LET action == GenerateActionPlan(Top.task, reply)
           bad == Cost(~reply.ok) + Cost(o.status # "ok")
           r == ExecuteAction(action, o)
       IN
       /\ o \in DriverOutcomes(action.action)
       /\ faults + bad <= MaxFaults
       /\ faults' = faults + bad
       /\ last_exec' = ExecRecord(action, o)
       /\ IF r.raised
          THEN /\ stack' = SetTop(SimpleFailed([Top EXCEPT !.action = action,
                                                            !.executed = 1], r.msg))
               /\ UNCHANGED <<action_history, clock>>
          ELSE /\ action_history' =
                      StoreActionHistory(action_history, Top.task, action, r.val, clock)
               /\ clock' = clock + 1
               /\ stack' = SetTop([Top EXCEPT !.pc = "return", !.ret = r.val,
                                              !.action = action, !.result = r.val,
                                              !.executed = 1, !.stored = 1])
    /\ UNCHANGED <<driver, current_plan, plan_step, last_result, observed, calls>>

----------------------------------------------------------------------------
(* recoverFromError: BrowserAgent._recover_from_error *)

\* str.split(): the whitespace-separated words of s, in order
RECURSIVE Split(_)
Split(s) ==
    LET t == LStrip(s)
        w == NonSpacePrefix(t)
    IN  IF Len(t) = 0 THEN << >> ELSE <<w>> \o Split(SubSeq(t, Len(w) + 1, Len(t)))

\* interactive elements as the page script of debug_element_selection reports them
DebugElement(text, tag, selectors, is_clickable) ==
    [text |-> text, tag |-> tag, selectors |-> selectors, is_clickable |-> is_clickable]
DebugReplies ==
    {<< >>,
     <<DebugElement("Home", "a", <<"a#home">>, FALSE),
       DebugElement("The Button", "button", <<"button#ok", "button.primary">>, FALSE)>>}

\* `time.time()` in debug_element_selection: the module has no `import time`, and the
\* function imports none of its own
NameErrorMsg == "name 'time' is not defined"

\* debug_element_selection(task): the script's elements are in hand when the
\* screenshot filename is built from time.time(); that raises NameError, and the
\* except clause returns {"error": str(e)}
DebugElementSelection(elements) == [error |-> NameErrorMsg]

\* debug_info.get('available_elements', [])
AvailableElements(debug_info) == Get(debug_info, "available_elements", << >>)

\* "Element not found" in error or "Timeout" in error
IsElementError(error) == Contains(error, "Element not found") \/ Contains(error, "Timeout")

\* the loop over available_elements: the selector that was clicked, or None
RECURSIVE TryAlternatives(_, _, _)
TryAlternatives(elements, task_lower, click) ==
    IF Len(elements) = 0 THEN None
    ELSE LET element == Head(elements)
             element_text == Lower(element.text)
             element_tag == Lower(element.tag)
             keywords == Split(task_lower)
         IN  IF  /\ \E k \in 1..Len(keywords) : Contains(element_text, keywords[k])
                 /\ Len(element.selectors) > 0
                 /\ (element_tag \in {"button", "a"} \/ element.is_clickable)
                 /\ click.status # "raise"
             THEN Some(element.selectors[1])
             ELSE TryAlternatives(Tail(elements), task_lower, click)

RecoveryScreenshot(now) ==
    [action |-> "screenshot",
     parameters |-> [filename |-> "error_recovery_" \o NatStr(now) \o ".png"],
     description |-> "Error recovery screenshot"]
RecoveryWait ==
    [action |-> "wait", parameters |-> [seconds |-> 2],
     description |-> "Wait for page to stabilize"]
RecoveryReload ==
    [action |-> "execute_script", parameters |-> [script |-> "location.reload();"],
     description |-> "Refresh page"]

\* the recovery_actions loop: the actions it executes, in order (it stops at the
\* first that reports success; an exception moves on to the next)
RecoveryRun(reload) ==
    LET waited == ExecuteAction(RecoveryWait, DriverOk) IN
    IF ~waited.raised /\ waited.val.success
    THEN <<ExecRecord(RecoveryWait, DriverOk)>>
    ELSE <<ExecRecord(RecoveryWait, DriverOk), ExecRecord(RecoveryReload, reload)>>

\* variant: the result of the first recovery action that reports success is returned
RecoverFromErrorReturnsRecovery(task, error, now, shot, elements, click, reload) ==
    ExecuteAction(RecoveryWait, DriverOk).val

\* _recover_from_error(task, error): the ActionResult it returns
RecoverFromErrorResult(task, error, now, shot, elements, click, reload) ==
    LET screenshot_result == ExecuteAction(RecoveryScreenshot(now), shot)
        alternative ==
            IF IsElementError(error)
            THEN TryAlternatives(AvailableElements(DebugElementSelection(elements)),
                                 Lower(task), click)
            ELSE None
    IN
    IF screenshot_result.raised
    THEN Failure("Original: " \o error \o ", Recovery: " \o screenshot_result.msg)
    ELSE IF alternative.some
    THEN ActionResult(TRUE, Some([recovered_with |-> alternative.val]), None, None)
    ELSE ActionResult(FALSE, None,
                      Some("Original error: " \o error \o ". Recovery attempted."),
                      IF screenshot_result.val.success
                      THEN screenshot_result.val.screenshot_path
                      ELSE None)

\* the last _execute_action call _recover_from_error made
RecoverFromErrorLastExec(error, now, shot, elements, task, click, reload) ==
    LET screenshot_result == ExecuteAction(RecoveryScreenshot(now), shot)
        run == RecoveryRun(reload)
    IN  IF  \/ screenshot_result.raised
            \/ /\ IsElementError(error)
               /\ TryAlternatives(AvailableElements(DebugElementSelection(elements)),
                                  Lower(task), click).some
        THEN ExecRecord(RecoveryScreenshot(now), shot)
        ELSE run[Len(run)]

RecoverFromError(shot, elements, click, reload) ==
    /\ Running("recover_error")
    /\ shot \in DriverOutcomes("screenshot")
    /\ elements \in (IF IsElementError(Top.error) THEN DebugReplies ELSE {<< >>})
    /\ click \in (IF IsElementError(Top.error) /\ Len(elements) > 0
                  THEN DriverOutcomes("click") ELSE {DriverOk})
    /\ reload \in {DriverOk}
    /\ faults + Cost(shot.status # "ok") + Cost(click.status # "ok") <= MaxFaults
    /\ faults' = faults + Cost(shot.status # "ok") + Cost(click.status # "ok")
    /\ last_exec' = RecoverFromErrorLastExec(Top.error, clock, shot, elements, Top.task,
                                             click, reload)
    /\ stack' = SetTop([Top EXCEPT
                  !.pc = "return",
                  !.ret = RecoverFromErrorResult(Top.task, Top.error, clock, shot,
                                                 elements, click, reload)])
    /\ clock' = clock + 1
    /\ UNCHANGED <<driver, action_history, current_plan, plan_step, last_result, observed, calls>>

----------------------------------------------------------------------------
(* The complex path: BrowserAgent._execute_complex_task *)

\* the log line over the plan reads step['description'] of every step
DescribesEveryStep(plan) == \A i \in 1..Len(plan) : "description" \in DOMAIN plan[i]

\* probe, analyse, generate the plan, publish it and reset the cursor
ComplexPlan(analysis, reply) ==
    /\ Running("complex_plan")
    /\ faults + Cost(analysis # "clean") + Cost(~reply.ok) <= MaxFaults
    /\ faults' = faults + Cost(analysis # "clean") + Cost(~reply.ok)
    /\ LET logged == LogObstacles(analysis)
           plan == GenerateMultiStepPlan(reply)
       IN
       IF logged.raised
       THEN /\ stack' = SetTop(ComplexFailed(Top, logged.msg))
            /\ UNCHANGED <<current_plan, plan_step>>
       ELSE IF ~DescribesEveryStep(plan)
       THEN /\ stack' = SetTop(ComplexFailed(Top, "'description'"))
            /\ UNCHANGED <<current_plan, plan_step>>
       ELSE /\ current_plan' = Some(plan)
            /\ plan_step' = 0
            /\ stack' = SetTop([Top EXCEPT !.plan = plan, !.step_idx = 0, !.pc = "loop",
                                           !.probed = PlanContext(Top),
                                           !.fallback = ~reply.ok])
    /\ UNCHANGED <<driver, action_history, last_result, last_exec, observed, calls, clock>>

\* the head of one loop iteration: advance the cursor, probe and analyse afresh
StepBegin(analysis) ==
    /\ Running("loop")
    /\ Top.step_idx < Len(Top.plan)
    /\ faults + Cost(analysis # "clean") <= MaxFaults
    /\ faults' = faults + Cost(analysis # "clean")
    /\ plan_step' = Top.step_idx
    /\ LET logged == LogObstacles(analysis)
           begun == [Top EXCEPT !.log = <<Event("begin", Unset, TRUE, analysis)>>,
                                !.action = Unset, !.result = Unset,
                                !.recovery_result = Unset, !.user_recovery = Unset,
                                !.probed = StepContext(Top)]
       IN
       stack' = SetTop(IF logged.raised
                       THEN ComplexFailed(begun, logged.msg)
                       ELSE [begun EXCEPT !.pc = "execute"])
    /\ UNCHANGED <<driver, action_history, current_plan, last_result, last_exec, observed, calls, clock>>

\* construct the step's BrowserAction and execute it
StepExecute(o) ==
    /\ Running("execute")
    /\ LET made == MakeBrowserAction(Top.plan[Top.step_idx + 1]) IN
       IF made.raised
       THEN /\ o = DriverOk
            /\ stack' = SetTop(ComplexFailed(Top, made.msg))
            /\ UNCHANGED <<last_exec, faults>>
       ELSE LET action == made.val
                r == ExecuteAction(action, o)
                ran == [Top EXCEPT !.action = action, !.executed = Top.step_idx + 1]
            IN
            /\ o \in DriverOutcomes(action.action)
            /\ faults + Cost(o.status # "ok") <= MaxFaults
            /\ faults' = faults + Cost(o.status # "ok")
            /\ last_exec' = ExecRecord(action, o)
            /\ stack' = SetTop(
                 IF r.raised THEN ComplexFailed(ran, r.msg)
                 ELSE [ran EXCEPT !.result = r.val,
                                  !.pc = AfterExecute(r.val),
                                  !.log = Append(Top.log,
                                            Event("exec", action, r.val.success, ""))])
    /\ UNCHANGED <<driver, action_history, current_plan, plan_step, last_result, observed, calls, clock>>

\* _recover_from_step_failure: wait a second, execute the same step once more
RecoverFromStepFailure(o) ==
    /\ Running("recover")
    /\ LET made == MakeBrowserAction(Top.plan[Top.step_idx + 1])
           action == made.val
           r == IF made.raised THEN Returned(Failure(made.msg)) ELSE ExecuteAction(action, o)
           recovery_result == IF r.raised THEN Failure(r.msg) ELSE r.val
       IN
       /\ ~made.raised
       /\ o \in DriverOutcomes(action.action)
       /\ faults + Cost(o.status # "ok") <= MaxFaults
       /\ faults' = faults + Cost(o.status # "ok")
       /\ last_exec' = ExecRecord(action, o)
       /\ stack' = SetTop([Top EXCEPT
                     !.recovery_result = recovery_result,
                     !.pc = AfterRecovery(recovery_result),
                     !.log = Append(Top.log,
                               Event("recover", action, recovery_result.success, ""))])
    /\ UNCHANGED <<driver, action_history, current_plan, plan_step, last_result, observed, calls, clock>>

\* `user_input = console.input(...).strip().lower()`
ReadChoice(typed) == Lower(Strip(typed))

\* _ask_user_for_help when the console fails before an answer is read
AskUserFails(msg) ==
    /\ Running("ask")
    /\ msg \in ConsoleErrors
    /\ faults + 1 <= MaxFaults
    /\ faults' = faults + 1
    /\ stack' = SetTop(AfterUser(
                  [Top EXCEPT !.log = Append(Top.log, Event("ask", Top.action, FALSE, "<raise>"))],
                  Failure("User input failed: " \o msg)))
    /\ UNCHANGED <<driver, action_history, current_plan, plan_step, last_result, last_exec,
                   observed, calls, clock>>

\* _ask_user_for_help when the human answers skip, retry or abort
AskUserForHelp(typed, o) ==
    /\ Running("ask")
    /\ typed \in HumanInputs
    /\ LET user_input == ReadChoice(typed)
           asked == [Top EXCEPT !.log = Append(Top.log,
                                          Event("ask", Top.action, FALSE, user_input))]
       IN
       /\ user_input \in {"skip", "retry", "abort"}
       /\ CASE user_input = "skip" ->
                 /\ o = DriverOk
                 /\ stack' = SetTop(AfterUser(
                               [asked EXCEPT !.skipped = asked.skipped \cup {Top.step_idx + 1}],
                               SkipResult))
                 /\ UNCHANGED <<last_exec, faults>>
            [] user_input = "retry" ->
                 LET action == MakeBrowserAction(Top.plan[Top.step_idx + 1]).val
                     r == ExecuteAction(action, o)
                     user_recovery ==
                         IF r.raised THEN Failure("User input failed: " \o r.msg) ELSE r.val
                 IN
                 /\ o \in DriverOutcomes(action.action)
                 /\ faults + Cost(o.status # "ok") <= MaxFaults
                 /\ faults' = faults + Cost(o.status # "ok")
                 /\ last_exec' = ExecRecord(action, o)
                 /\ stack' = SetTop(AfterUser(
                               [asked EXCEPT !.log = Append(asked.log,
                                  Event("user_retry", action, user_recovery.success, ""))],
                               user_recovery))
            [] user_input = "abort" ->
                 /\ o = DriverOk
                 /\ stack' = SetTop(AfterUser(asked, AbortResult))
                 /\ UNCHANGED <<last_exec, faults>>
    /\ UNCHANGED <<driver, action_history, current_plan, plan_step, last_result, observed, calls, clock>>

\* _ask_user_for_help when the human types a new instruction: execute_task(user_input)
AskUserNewTask(typed) ==
    /\ Running("ask")
    /\ typed \in HumanInputs
    /\ Depth < MaxDepth
    /\ LET user_input == ReadChoice(typed) IN
       /\ user_input \notin {"skip", "retry", "abort"}
       /\ stack' = Append(
            SetTop([Top EXCEPT !.pc = "await_task",
                               !.replaced_at = IF Top.replaced_at = 0
                                               THEN Top.step_idx + 1
                                               ELSE Top.replaced_at,
                               !.log = Append(Top.log,
                                          Event("ask", Top.action, FALSE, user_input))]),
            NewFrame(user_input))
    /\ UNCHANGED <<driver, action_history, current_plan, plan_step, last_result, last_exec,
                   observed, calls, faults, clock>>

\* `self._store_action_history(f"Step {step_idx + 1}", action, result)`, the delay,
\* and on to the next step
StoreStep ==
    /\ Running("store")
    /\ action_history' = StoreActionHistory(action_history, StepLabel(Top.step_idx),
                                            Top.action, Top.result, clock)
    /\ clock' = clock + 1
    /\ stack' = SetTop([Top EXCEPT !.pc = "loop", !.step_idx = Top.step_idx + 1,
                                   !.stored = Top.stored + 1,
                                   !.log = Append(Top.log, Event("store", Top.action,
                                                                 Top.result.success, ""))])
    /\ UNCHANGED <<driver, current_plan, plan_step, last_result, last_exec, observed, calls, faults>>

\* the loop is exhausted: `return ActionResult(success=True, data={"completed_steps": len(plan)})`
ComplexReturn ==
    /\ Running("loop")
    /\ Top.step_idx >= Len(Top.plan)
    /\ stack' = SetTop([Top EXCEPT
                  !.pc = "return",
                  !.ret = ActionResult(TRUE, Some([completed_steps |-> Len(Top.plan)]),
                                       None, None)])
    /\ UNCHANGED <<driver, action_history, current_plan, plan_step, last_result, last_exec,
                   observed, calls, faults, clock>>

\* execute_task returns: to the console escalation that called it, or to the user
Return ==
    /\ Running("return")
    /\ IF Depth = 1
       THEN /\ stack' = << >>
            /\ last_result' = Some(IF Top.escaped THEN Raised(Top.error) ELSE Returned(Top.ret))
       ELSE LET caller == stack[Depth - 1]
                \* an exception out of the nested call is caught in _ask_user_for_help
                user_recovery == IF Top.escaped
                                 THEN Failure("User input failed: " \o Top.error)
                                 ELSE Top.ret
            IN
            /\ stack' = Append(SubSeq(stack, 1, Depth - 2),
                          AfterUser([caller EXCEPT !.log = Append(caller.log,
                                        Event("task_returned", Unset, user_recovery.success,
                                              Top.task))],
                                    user_recovery))
            /\ UNCHANGED last_result
    /\ UNCHANGED <<driver, action_history, current_plan, plan_step, last_exec, observed, calls, faults, clock>>

----------------------------------------------------------------------------
(* The specification of the agent *)

Init ==
    /\ action_history = << >>
    /\ current_plan = None
    /\ plan_step = 0
    /\ stack = << >>
    /\ last_result = None
    /\ last_exec = Unset
    /\ calls = 0
    /\ faults = 0
    /\ clock = 0
    /\ observed = Unset
    /\ driver = NewChromeDriver

Next ==
    \/ \E task \in Tasks : Call(task)
    \/ \E analysis \in Analyses : SimpleAnalyze(analysis)
    \/ \E reply \in {ModelFailed} \cup {ModelReply(a) : a \in ModelActions},
          o \in DriverOutcomes("screenshot") : SimpleAct(reply, o)
    \/ \E shot \in DriverOutcomes("screenshot"), elements \in DebugReplies,
          click \in DriverOutcomes("click"), reload \in DriverOutcomes("execute_script") :
          RecoverFromError(shot, elements, click, reload)
    \/ \E analysis \in Analyses,
          reply \in {ModelFailed} \cup {ModelReply(p) : p \in ModelPlans} :
          ComplexPlan(analysis, reply)
    \/ \E analysis \in Analyses : StepBegin(analysis)
    \/ \E o \in DriverOutcomes("screenshot") : StepExecute(o)
    \/ \E o \in DriverOutcomes("screenshot") : RecoverFromStepFailure(o)
    \/ \E msg \in ConsoleErrors : AskUserFails(msg)
    \/ \E typed \in HumanInputs, o \in DriverOutcomes("screenshot") : AskUserForHelp(typed, o)
    \/ \E typed \in HumanInputs : AskUserNewTask(typed)
    \/ StoreStep
    \/ ComplexReturn
    \/ Return

Spec == Init /\ [][Next]_vars

----------------------------------------------------------------------------
(* The action executor on its own: _execute_action called directly *)

\* the discriminators a planner may write for `by`
ByValues == {"css", "CSS", "xpath", "id", "name", "class", "tag", "link_text",
             "partial_link_text"}

\* the parameter mappings of a selector-taking action: with and without `by`
SelectorParams(extra) ==
    {[selector |-> "#go"] @@ extra} \cup {[selector |-> "#go", by |-> b] @@ extra : b \in ByValues}

BrowserActionOf(kind, parameters) ==
    [action |-> kind, parameters |-> parameters, description |-> "do it"]

\* BrowserActions of every kind, optional parameters present and absent
ExecutorActions ==
    {BrowserActionOf("click", p) : p \in SelectorParams(<< >>)}
    \cup {BrowserActionOf("type", p) : p \in SelectorParams([text |-> "hello"])}
    \cup {BrowserActionOf("get_text", p) : p \in SelectorParams(<< >>)}
    \cup {BrowserActionOf("get_attribute", p) : p \in SelectorParams([attribute |-> "href"])}
    \cup {BrowserActionOf("navigate", p) : p \in {<< >>, [url |-> "https://example.com"]}}
    \cup {BrowserActionOf("scroll", p) :
            p \in {<< >>, [direction |-> "down"], [direction |-> "up"], [amount |-> 100],
                   [direction |-> "up", amount |-> 100],
                   [direction |-> "down", amount |-> 100]}}
    \cup {BrowserActionOf("wait", p) : p \in {<< >>, [seconds |-> 2]}}
    \cup {BrowserActionOf("screenshot", p) : p \in {<< >>, [filename |-> "page.png"]}}
    \cup {BrowserActionOf("execute_script", p) : p \in {<< >>, [script |-> "return 1;"]}}

\* one direct call of _execute_action
ExecuteCall(action, o) ==
    /\ o \in DriverOutcomes(action.action)
    /\ last_exec' = ExecRecord(action, o)
    /\ UNCHANGED <<driver, action_history, current_plan, plan_step, stack, last_result, observed, calls,
                   faults, clock>>

NextExecutor == \E action \in ExecutorActions, o \in DriverOutcomes("screenshot") :
                    ExecuteCall(action, o)

SpecExecutor == Init /\ [][NextExecutor]_vars

----------------------------------------------------------------------------
(* The agent together with direct calls of _execute_action, before its tasks, on
   an action object whose kind is not one of the nine *)

\* action objects built without validation, as a mock or model_construct gives
UnknownKindActions ==
    {BrowserActionOf("hover", [selector |-> "#go"]), BrowserActionOf("", << >>)}

\* _execute_action(action) called on the agent before its first task
DirectCall(action) ==
    /\ Depth = 0
    /\ calls = 0
    /\ ExecuteCall(action, DriverOk)

NextUnknownKind ==
    \/ Next
    \/ \E action \in UnknownKindActions : DirectCall(action)

SpecUnknownKind == Init /\ [][NextUnknownKind]_vars

----------------------------------------------------------------------------
(* The action history on its own: _store_action_history called directly *)

\* one direct call of _store_action_history
StoreCall(task, action, o) ==
    /\ clock < MaxStores
    /\ o \in DriverOutcomes(action.action)
    /\ action_history' = StoreActionHistory(action_history, task, action,
                                            ExecuteAction(action, o).val, clock)
    /\ clock' = clock + 1
    /\ UNCHANGED <<driver, current_plan, plan_step, stack, last_result, last_exec, observed, calls, faults>>

NextHistory == \E o \in DriverOutcomes("click") :
                   StoreCall("click the button", MakeBrowserAction(StepClick).val, o)

SpecHistory == Init /\ [][NextHistory]_vars

----------------------------------------------------------------------------
(* The helpers on their own: the planners, the classifier at the gate of
   execute_task and _recover_from_error, each called directly *)

\* task texts: with and without a navigation keyword, a URL, a complexity keyword
HelperTasks ==
    Tasks \cup
    {"navigate to https://example.com", "Visit http://a.b/c?d=1 please",
     "go to the page", "VISIT HTTPS://EXAMPLE.COM", "open https://example.com",
     "take a sandwich photo", "Login", "scroll down"}

\* str(e) of exceptions execute_task hands to _recover_from_error
RecoveryErrors ==
    {JoinErrorMsg, "Element not found after trying multiple strategies: #go",
     "Timeout 30000ms exceeded"}

\* the model answered in time with text that json.loads rejects
ModelUnparsable == [ok |-> FALSE, text |-> "Sure, here is the action"]

\* the SIGALRM deadline when _generate_action_plan returns: signal.alarm(30) before
\* the call, signal.alarm(0) after a reply and in `except TimeoutError` only; a
\* failed reply without text is a model call that raised another exception
AlarmAfter(reply) ==
    IF reply.ok \/ Late(reply) \/ "text" \in DOMAIN reply THEN "cancelled" ELSE "armed"

\* _generate_action_plan(task, ...) with the model answering `reply`
PlanActionCall(task, reply) ==
    /\ observed' = [fn |-> "_generate_action_plan", task |-> task, reply |-> reply,
                    ret |-> GenerateActionPlan(task, reply), alarm |-> AlarmAfter(reply)]
    /\ UNCHANGED <<driver, action_history, current_plan, plan_step, stack, last_result, last_exec,
                   calls, faults, clock>>

\* _generate_multi_step_plan(task, ...) with the model answering `reply`
PlanStepsCall(task, reply) ==
    /\ observed' = [fn |-> "_generate_multi_step_plan", task |-> task, reply |-> reply,
                    ret |-> GenerateMultiStepPlan(reply)]
    /\ UNCHANGED <<driver, action_history, current_plan, plan_step, stack, last_result, last_exec,
                   calls, faults, clock>>

\* execute_task(task) up to its complexity gate
GateCall(task) ==
    /\ observed' = [fn |-> "execute_task", task |-> task,
                    classified |-> IsComplexTask(task), frame |-> NewFrame(task)]
    /\ UNCHANGED <<driver, action_history, current_plan, plan_step, stack, last_result, last_exec,
                   calls, faults, clock>>

\* _recover_from_error(task, error) on a page whose element script reports `elements`
RecoverCall(task, error, shot, elements, click, reload) ==
    /\ observed' = [fn |-> "_recover_from_error", task |-> task, error |-> error,
                    shot |-> shot, elements |-> elements, click |-> click,
                    run |-> RecoveryRun(reload),
                    ret |-> RecoverFromErrorResult(task, error, clock, shot, elements,
                                                  click, reload)]
    /\ UNCHANGED <<driver, action_history, current_plan, plan_step, stack, last_result, last_exec,
                   calls, faults, clock>>

\* the deadline of an alarm left armed passes after _generate_action_plan has
\* returned: timeout_handler raises TimeoutError in whatever the main thread is doing
AlarmFires ==
    /\ observed # Unset
    /\ observed.fn = "_generate_action_plan"
    /\ observed.alarm = "armed"
    /\ observed' = [observed EXCEPT !.alarm = "fired"]
    /\ UNCHANGED <<driver, action_history, current_plan, plan_step, stack, last_result,
                   last_exec, calls, faults, clock>>

NextHelpers ==
    \/ \E task \in HelperTasks,
          reply \in {ModelFailed, ModelUnparsable}
                    \cup {ModelReply(a) : a \in ModelActions \cup {StepHover}}
                    \cup {ModelLate(a) : a \in ModelActions} :
          PlanActionCall(task, reply)
    \/ AlarmFires
    \/ \E task \in HelperTasks,
          reply \in {ModelFailed} \cup {ModelReply(d) : d \in ModelPlans}
                    \cup {ModelLate(d) : d \in ModelPlans} :
          PlanStepsCall(task, reply)
    \/ \E task \in HelperTasks : GateCall(task)
    \/ \E task \in HelperTasks, error \in RecoveryErrors,
          shot \in DriverOutcomes("screenshot"), elements \in DebugReplies,
          click \in DriverOutcomes("click"), reload \in DriverOutcomes("execute_script") :
          RecoverCall(task, error, shot, elements, click, reload)

SpecHelpers == Init /\ [][NextHelpers]_vars

----------------------------------------------------------------------------
(* The retry policy around execute_task on its own:
   @retry(stop=stop_after_attempt(3), wait=wait_exponential(multiplier=1, min=4, max=10)) *)


\* the last direct call was a call of fn
Called(fn) == observed # Unset /\ observed.fn = fn

\* stop_after_attempt(3)
StopAfterAttempt == 3
\* wait_exponential(multiplier=1, min=4, max=10)
WaitMultiplier == 1
WaitMin == 4
WaitMax == 10

\* an exception that is not an Exception (KeyboardInterrupt at the console)
Interrupt == [raised |-> TRUE, msg |-> "KeyboardInterrupt", val |-> Unset, base |-> TRUE]
IsException(outcome) == outcome.raised /\ "base" \notin DOMAIN outcome

\* what one attempt of the body can end with: a result, successful or failed, an
\* exception raised in or after the except clause (the alarm handler raises
\* TimeoutError wherever the main thread is), or an interrupt
AttemptOutcomes ==
    {Returned(ActionResult(TRUE, Some([clicked |-> "#go"]), None, None)),
     Returned(Failure("Original error: Page not started. Recovery attempted.")),
     Returned(Failure("Complex task failed")),
     Raised("OpenAI API call timed out"),
     Raised("Page not started"),
     Interrupt}

RECURSIVE Pow2(_)
Pow2(n) == IF n <= 0 THEN 1 ELSE 2 * Pow2(n - 1)

\* wait_exponential: multiplier * 2^(attempt - 1), clamped to [min, max]
WaitExponential(attempt_number) ==
    LET result == WaitMultiplier * Pow2(attempt_number - 1)
        capped == IF result < WaitMax THEN result ELSE WaitMax
    IN  IF capped > WaitMin THEN capped ELSE WaitMin

\* variant: a returned result whose success is false is retried as well
RetryDecisionOnFailedResult(outcome, attempt_number) ==
    IF ~outcome.raised /\ outcome.val.success THEN "return"
    ELSE IF outcome.raised /\ "base" \in DOMAIN outcome THEN "reraise"
    ELSE IF attempt_number >= StopAfterAttempt THEN "retry_error"
    ELSE "sleep"

\* what the policy does after attempt number attempt_number ended with outcome:
\* the default condition retries on Exception only
RetryDecision(outcome, attempt_number) ==
    IF ~outcome.raised THEN "return"
    ELSE IF ~IsException(outcome) THEN "reraise"
    ELSE IF attempt_number >= StopAfterAttempt THEN "retry_error"
    ELSE "sleep"

RetryErrorMsg == "RetryError"

\* agent.execute_task(task): the policy starts its first attempt
RetryCall(task) ==
    /\ observed = Unset \/ (Called("retry") /\ observed.state \in {"returned", "raised"})
    /\ observed' = [fn |-> "retry", task |-> task, attempts |-> << >>, slept |-> << >>,
                    state |-> "attempt", out |-> Unset]
    /\ UNCHANGED <<driver, action_history, current_plan, plan_step, stack, last_result, last_exec,
                   calls, faults, clock>>

\* one attempt of the body ends with `outcome`
RetryAttempt(outcome) ==
    /\ Called("retry")
    /\ observed.state = "attempt"
    /\ LET attempts == Append(observed.attempts, outcome)
           decision == RetryDecision(outcome, Len(attempts))
       IN observed' = [observed EXCEPT
                         !.attempts = attempts,
                         !.state = CASE decision = "return" -> "returned"
                                     [] decision = "sleep" -> "sleep"
                                     [] OTHER -> "raised",
                         !.out = CASE decision = "return" -> outcome
                                   [] decision = "reraise" -> outcome
                                   [] decision = "retry_error" -> Raised(RetryErrorMsg)
                                   [] OTHER -> Unset]
    /\ UNCHANGED <<driver, action_history, current_plan, plan_step, stack, last_result, last_exec,
                   calls, faults, clock>>

\* the sleep between two attempts ends
RetryBackoff ==
    /\ Called("retry")
    /\ observed.state = "sleep"
    /\ observed' = [observed EXCEPT
                      !.slept = Append(observed.slept, WaitExponential(Len(observed.attempts))),
                      !.state = "attempt"]
    /\ UNCHANGED <<driver, action_history, current_plan, plan_step, stack, last_result, last_exec,
                   calls, faults, clock>>

\* the sleep between two attempts is interrupted
RetryBackoffInterrupted ==
    /\ Called("retry")
    /\ observed.state = "sleep"
    /\ observed' = [observed EXCEPT !.state = "raised", !.out = Interrupt]
    /\ UNCHANGED <<driver, action_history, current_plan, plan_step, stack, last_result, last_exec,
                   calls, faults, clock>>

NextRetry ==
    \/ \E task \in HelperTasks : RetryCall(task)
    \/ \E outcome \in AttemptOutcomes : RetryAttempt(outcome)
    \/ RetryBackoff
    \/ RetryBackoffInterrupted

SpecRetry == Init /\ [][NextRetry]_vars

----------------------------------------------------------------------------
(* PageContextProbe: BrowserAgent._get_page_context *)

\* a driver call that returned v
ProbeOk(v) == [status |-> "ok", msg |-> "", value |-> v]

\* what the page scripts report about elements and the page
Element(tag, text) == [tag |-> tag, text |-> text]
PageInfo(forms, has_login, has_search, page_ready) ==
    [forms |-> forms, links |-> 2, images |-> 1, has_login |-> has_login,
     has_search |-> has_search, page_ready |-> page_ready]

\* the values substituted when a sub-probe raises
DefaultTitle == "Unknown"
DefaultViewport == [width |-> 1920, height |-> 1080]
DefaultPageInfo ==
    [forms |-> 0, links |-> 0, images |-> 0, has_login |-> FALSE, has_search |-> FALSE,
     page_ready |-> TRUE]

\* the context of a top-level failure
ErrorContext(msg) == [error |-> msg, current_url |-> "unknown"]

\* the plan fields added when a plan is stored
PlanProgress(plan, step) ==
    IF plan.some /\ Len(plan.val) > 0
    THEN [current_plan_step |-> step, total_plan_steps |-> Len(plan.val),
          plan_progress |-> NatStr(step + 1) \o "/" \o NatStr(Len(plan.val))]
    ELSE << >>

\* variant: the failure of any sub-probe aborts the capture
GetPageContextAborts(url, title, viewport, elements, page_info, plan, step) ==
    IF \E status \in {url.status, title.status, viewport.status, elements.status,
                        page_info.status} : status = "raise"
    THEN [error |-> "Page not started", current_url |-> "unknown"]
    ELSE [current_url |-> url.value, page_title |-> title.value,
          viewport_info |-> viewport.value, interactive_elements |-> elements.value,
          page_info |-> page_info.value]

\* _get_page_context: each argument is what the driver call of one probe does
GetPageContext(url, title, viewport, elements, page_info, plan, step) ==
    IF url.status = "raise" THEN ErrorContext(url.msg)
    ELSE [current_url |-> url.value,
          page_title |-> IF title.status = "raise" THEN DefaultTitle ELSE title.value,
          viewport_info |-> IF viewport.status = "raise" THEN DefaultViewport
                            ELSE viewport.value,
          interactive_elements |-> IF elements.status = "raise" THEN << >>
                                   ELSE elements.value,
          page_info |-> IF page_info.status = "raise" THEN DefaultPageInfo
                        ELSE page_info.value]
         @@ PlanProgress(plan, step)

\* outcomes of the five driver calls of one capture
UrlProbes == {ProbeOk("https://shop.example/login")} \cup {DriverRaise(m) : m \in DriverErrors}
TitleProbes == {ProbeOk("Sign in"), ProbeOk("Order Form")} \cup {DriverRaise(m) : m \in DriverErrors}
ViewportProbes == {ProbeOk([width |-> 1280, height |-> 720])} \cup {DriverRaise(m) : m \in DriverErrors}
ElementProbes ==
    {ProbeOk(<< >>), ProbeOk(<<Element("button", "Checkout now"), Element("a", "View cart")>>)}
    \cup {DriverRaise(m) : m \in DriverErrors}
PageInfoProbes ==
    {ProbeOk(PageInfo(1, TRUE, FALSE, TRUE)), ProbeOk(PageInfo(0, FALSE, TRUE, FALSE))}
    \cup {DriverRaise(m) : m \in DriverErrors}

\* one call of _get_page_context
CaptureCall(url, title, viewport, elements, page_info) ==
    /\ observed' = [fn |-> "_get_page_context", url |-> url, title |-> title,
                    viewport |-> viewport, elements |-> elements, page_info |-> page_info,
                    ret |-> GetPageContext(url, title, viewport, elements, page_info,
                                           current_plan, plan_step)]
    /\ UNCHANGED <<driver, action_history, current_plan, plan_step, stack, last_result, last_exec,
                   calls, faults, clock>>

NextProbe ==
    \E url \in UrlProbes, title \in TitleProbes, viewport \in ViewportProbes,
       elements \in ElementProbes, page_info \in PageInfoProbes :
       CaptureCall(url, title, viewport, elements, page_info)

SpecProbe == Init /\ [][NextProbe]_vars

----------------------------------------------------------------------------
(* SituationAnalyzer: _analyze_task_intent, _analyze_page_state,
   _analyze_contextual_relevance, _generate_ai_situation_analysis,
   _analyze_situation *)

\* any(word in s for word in words)
AnyIn(words, s) == \E w \in words : Contains(s, w)

IntentKeywords ==
    [navigation |-> {"go to", "navigate", "visit", "open", "browse"},
     interaction |-> {"click", "press", "tap", "select", "choose"},
     input |-> {"type", "enter", "fill", "write", "input"},
     search |-> {"search", "find", "look for", "locate"},
     extraction |-> {"get", "extract", "read", "copy", "save"},
     verification |-> {"check", "verify", "confirm", "test"},
     multi_step |-> {"and", "then", "after", "next", "finally"}]

\* variant: the word-count thresholds are inclusive
ComplexityInclusive(multi_step, word_count) ==
    IF multi_step \/ word_count >= 10 THEN "complex"
    ELSE IF word_count >= 5 THEN "medium"
    ELSE "simple"

\* the complexity assessment
Complexity(multi_step, word_count) ==
    IF multi_step \/ word_count > 10 THEN "complex"
    ELSE IF word_count > 5 THEN "medium"
    ELSE "simple"

\* _analyze_task_intent; `intent` is the set of the tags that are present
AnalyzeTaskIntent(task) ==
    LET task_lower == Lower(task)
        intent == {k \in DOMAIN IntentKeywords : AnyIn(IntentKeywords[k], task_lower)}
        word_count == Len(Split(task))
    IN  [intent |-> intent,
         complexity |-> Complexity("multi_step" \in intent, word_count),
         word_count |-> word_count,
         has_url |-> Contains(task_lower, "http"),
         has_specific_element |-> AnyIn({"button", "link", "form", "input", "field"}, task_lower)]

\* variant: reading a context field by subscription, KeyError when it is absent
FetchRequired(context, key, default) ==
    IF key \in DOMAIN context THEN Returned(context[key])
    ELSE Raised("KeyError: '" \o key \o "'")

\* context.get(key, default)
Fetch(context, key, default) == Returned(Get(context, key, default))

\* the context fields the analyzer and the planners read
ContextKeys == {"current_url", "page_title", "interactive_elements", "page_info"}

\* the exceptions raised by reading these fields of the context
KeyErrors(context) ==
    {Fetch(context, k, PyNone).msg : k \in {kk \in ContextKeys : Fetch(context, kk, PyNone).raised}}

\* any(word in elem.get("text", "").lower() for elem in elements)
AnyElementText(elements, word) ==
    \E i \in 1..Len(elements) : Contains(Lower(Get(elements[i], "text", "")), word)

\* variant: the search field outranks the password field
PageTypeSearchFirst(context) ==
    LET page_info == Get(context, "page_info", << >>)
        elements == Get(context, "interactive_elements", << >>)
        page_title == Get(context, "page_title", "")
    IN  IF Get(page_info, "has_search", FALSE) THEN "search"
        ELSE IF Get(page_info, "has_login", FALSE) THEN "login"
        ELSE IF Contains(Lower(page_title), "form") \/ Get(page_info, "forms", 0) > 0 THEN "form"
        ELSE IF AnyElementText(elements, "checkout") THEN "checkout"
        ELSE IF AnyElementText(elements, "cart") THEN "shopping"
        ELSE "general"

\* the page type classification: an if/elif chain
PageType(context) ==
    LET page_info == Fetch(context, "page_info", << >>).val
        elements == Fetch(context, "interactive_elements", << >>).val
        page_title == Fetch(context, "page_title", "").val
    IN  IF Get(page_info, "has_login", FALSE) THEN "login"
        ELSE IF Get(page_info, "has_search", FALSE) THEN "search"
        ELSE IF Contains(Lower(page_title), "form") \/ Get(page_info, "forms", 0) > 0 THEN "form"
        ELSE IF AnyElementText(elements, "checkout") THEN "checkout"
        ELSE IF AnyElementText(elements, "cart") THEN "shopping"
        ELSE "general"

\* the page state assessment
PageState(context) ==
    LET page_info == Fetch(context, "page_info", << >>).val
        elements == Fetch(context, "interactive_elements", << >>).val
    IN  IF ~Get(page_info, "page_ready", TRUE) THEN "loading"
        ELSE IF Len(elements) = 0 THEN "empty"
        ELSE "ready"

\* the number of elements of each tag
ElementTypes(elements) ==
    LET tags == {Get(elements[i], "tag", "unknown") : i \in 1..Len(elements)} IN
    [t \in tags |-> Cardinality({i \in 1..Len(elements) : Get(elements[i], "tag", "unknown") = t})]

\* s.find(sub) + 1
IndexOf(s, sub) ==
    IF Contains(s, sub)
    THEN CHOOSE i \in 1..Len(s) :
            /\ SubSeq(s, i, i + Len(sub) - 1) = sub
            /\ \A j \in 1..(i - 1) : SubSeq(s, j, j + Len(sub) - 1) # sub
    ELSE 0

\* _extract_domain: urlparse(url).netloc, for URLs without userinfo, query or fragment
ExtractDomain(url) ==
    LET i == IndexOf(url, "://") IN
    IF i = 0 THEN ""
    ELSE LET rest == SubSeq(url, i + 3, Len(url))
             j == IndexOf(rest, "/")
         IN  IF j = 0 THEN rest ELSE SubSeq(rest, 1, j - 1)

\* _analyze_page_state
AnalyzePageState(context) ==
    LET page_info == Fetch(context, "page_info", << >>).val
        elements == Fetch(context, "interactive_elements", << >>).val
        current_url == Fetch(context, "current_url", "").val
    IN  [type |-> PageType(context),
         state |-> PageState(context),
         interactive_elements_count |-> Len(elements),
         element_types |-> ElementTypes(elements),
         has_forms |-> Get(page_info, "forms", 0) > 0,
         has_links |-> Get(page_info, "links", 0) > 0,
         has_images |-> Get(page_info, "images", 0) > 0,
         url_domain |-> ExtractDomain(current_url)]

\* set(s.split())
WordSet(s) == {Split(s)[i] : i \in 1..Len(Split(s))}

\* the relevance limit: relevant_elements[:5]
RelevantLimit == 5

\* variant: every relevant element is kept
TopRelevantAll(relevant) == relevant

TopRelevant(relevant) ==
    IF Len(relevant) > RelevantLimit THEN SubSeq(relevant, 1, RelevantLimit) ELSE relevant

\* min(1.0, n / max(1, total)) as a fraction
RelevanceScore(n, total) ==
    LET den == IF total > 1 THEN total ELSE 1 IN
    IF n > den THEN [num |-> 1, den |-> 1] ELSE [num |-> n, den |-> den]

\* _analyze_contextual_relevance
AnalyzeContextualRelevance(task, context) ==
    LET task_lower == Lower(task)
        elements == Fetch(context, "interactive_elements", << >>).val
        page_title == Lower(Fetch(context, "page_title", "").val)
        IsRelevant(elem) == WordSet(task_lower) \cap WordSet(Lower(Get(elem, "text", ""))) # {}
        relevant == SelectSeq(elements, IsRelevant)
    IN  [relevance_score |-> RelevanceScore(Len(relevant), Len(elements)),
         relevant_elements_count |-> Len(relevant),
         relevant_elements |-> TopRelevant(relevant),
         page_title_relevance |->
             \E w \in WordSet(task_lower) : Len(w) > 3 /\ Contains(page_title, w)]

\* 0.5
Half == [num |-> 1, den |-> 2]

\* a reply that parses as JSON but is not an object
JsonNull == [json |-> "null"]
JsonNumber == [json |-> "number"]
IsJsonObject(v) == "json" \notin DOMAIN v

\* _generate_ai_situation_analysis: the parsed reply whatever it is, or the fallback
GenerateAiSituationAnalysis(analysis, reply) ==
    IF reply.ok THEN reply.data
    ELSE [page_type |-> analysis.page_analysis.type,
          recommended_approach |-> "standard",
          potential_obstacles |-> << >>,
          success_indicators |-> << >>,
          confidence_level |-> Half,
          reasoning |-> "Analysis failed, using fallback"]

\* the analysis _analyze_situation returns from its except clause
SituationFallback ==
    [task_analysis |-> [intent |-> "unknown", complexity |-> "medium"],
     page_analysis |-> [type |-> "unknown", state |-> "unknown"],
     contextual_relevance |-> [relevance_score |-> Half],
     recommended_approach |-> "standard",
     potential_obstacles |-> << >>,
     success_indicators |-> << >>]

UpdateErrorMsg == "'NoneType' object is not iterable"

\* the try block of _analyze_situation; analysis.update(ai_analysis) raises when the
\* reply is not a mapping
AnalyzeSituationBody(task, context, reply) ==
    IF KeyErrors(context) # {} THEN Raised(CHOOSE m \in KeyErrors(context) : TRUE)
    ELSE LET analysis == [task_analysis |-> AnalyzeTaskIntent(task),
                          page_analysis |-> AnalyzePageState(context),
                          contextual_relevance |-> AnalyzeContextualRelevance(task, context),
                          recommended_approach |-> PyNone,
                          potential_obstacles |-> << >>,
                          success_indicators |-> << >>]
             ai_analysis == GenerateAiSituationAnalysis(analysis, reply)
         IN  IF IsJsonObject(ai_analysis) THEN Returned(ai_analysis @@ analysis)
             ELSE Raised(UpdateErrorMsg)

\* _analyze_situation
AnalyzeSituation(task, context, reply) ==
    LET body == AnalyzeSituationBody(task, context, reply) IN
    IF body.raised THEN SituationFallback ELSE body.val

\* the values interpolated into the user prompt of _generate_action_plan, which is
\* built before the try block
ActionPrompt(task, context, situation) ==
    IF KeyErrors(context) # {} THEN Raised(CHOOSE m \in KeyErrors(context) : TRUE)
    ELSE Returned([task |-> task,
                   url |-> Fetch(context, "current_url", "unknown").val,
                   title |-> Fetch(context, "page_title", "unknown").val,
                   elements |-> Fetch(context, "interactive_elements", << >>).val,
                   page_info |-> Fetch(context, "page_info", << >>).val,
                   plan_progress |-> Get(context, "plan_progress", ""),
                   page_type |-> Get(situation, "page_type", "unknown"),
                   approach |-> Get(situation, "recommended_approach", "standard"),
                   confidence |-> Get(situation, "confidence_level", Half)])

\* the values interpolated into the user prompt of _generate_multi_step_plan
StepsPrompt(task, context, situation) ==
    IF KeyErrors(context) # {} THEN Raised(CHOOSE m \in KeyErrors(context) : TRUE)
    ELSE Returned([task |-> task,
                   url |-> Fetch(context, "current_url", "unknown").val,
                   title |-> Fetch(context, "page_title", "unknown").val,
                   elements |-> Len(Fetch(context, "interactive_elements", << >>).val),
                   page_type |-> Get(situation, "page_type", "unknown"),
                   approach |-> Get(situation, "recommended_approach", "standard"),
                   confidence |-> Get(situation, "confidence_level", Half)])

----------------------------------------------------------------------------
(* The analyzer on its own: its functions keep no state, so each behaviour is one
   call of one of them on a fresh agent *)

\* task texts around the word-count thresholds, with and without a multi-step word
IntentTasks ==
    {"scroll down",
     "click the big red button",
     "click the big red submit button",
     "click the big red submit button at the top right",
     "click the big red submit button at the top right corner",
     "take a sandwich photo",
     "login then wait",
     "Visit http://a.b/c?d=1 please",
     "find the search field",
     "check the form"}

\* the replies of the model to the situation prompt, once parsed as JSON
AiLogin ==
    [page_type |-> "login", recommended_approach |-> "cautious",
     potential_obstacles |-> <<"captcha">>, success_indicators |-> <<"dashboard">>,
     confidence_level |-> [num |-> 9, den |-> 10], reasoning |-> "A password field"]
SituationReplies ==
    {ModelFailed, ModelReply(AiLogin), ModelReply([page_type |-> "error"]), ModelReply(<< >>),
     ModelReply(JsonNull), ModelReply(JsonNumber)}

\* element lists: none, two, and more than five that all name the cart
ElementLists ==
    {<< >>,
     <<Element("button", "Checkout now"), Element("a", "View cart")>>,
     <<Element("a", "Home"), Element("a", "About"), Element("input", "")>>,
     <<Element("a", "cart one"), Element("a", "Cart two"), Element("a", "cart three"),
       Element("button", "cart four"), Element("button", "cart five"),
       Element("button", "CART six"), Element("a", "Home")>>}

\* contexts with every combination of the classification inputs
PageStateContexts ==
    {[current_url |-> "https://shop.example/login", page_title |-> title,
      viewport_info |-> DefaultViewport, interactive_elements |-> elements,
      page_info |-> PageInfo(forms, has_login, has_search, TRUE)] :
        title \in {"Sign in", "Order Form"}, forms \in {0, 1}, has_login \in BOOLEAN,
        has_search \in BOOLEAN,
        elements \in {<< >>, <<Element("button", "Checkout now")>>,
                      <<Element("a", "View cart")>>,
                      <<Element("a", "View cart"), Element("button", "Checkout now")>>}}

RelevanceContexts ==
    {[current_url |-> "https://shop.example/cart", page_title |-> "Your Cart",
      viewport_info |-> DefaultViewport, interactive_elements |-> elements,
      page_info |-> DefaultPageInfo] : elements \in ElementLists}

RelevanceTasks == {"view cart", "Click the CART button", "scroll down", "go home and checkout"}

\* _analyze_task_intent(task)
IntentCall(task) ==
    /\ observed = Unset
    /\ observed' = [fn |-> "_analyze_task_intent", task |-> task,
                    ret |-> AnalyzeTaskIntent(task)]
    /\ UNCHANGED <<driver, action_history, current_plan, plan_step, stack, last_result, last_exec,
                   calls, faults, clock>>

\* _analyze_page_state(context)
PageStateCall(context) ==
    /\ observed = Unset
    /\ observed' = [fn |-> "_analyze_page_state", context |-> context,
                    ret |-> AnalyzePageState(context)]
    /\ UNCHANGED <<driver, action_history, current_plan, plan_step, stack, last_result, last_exec,
                   calls, faults, clock>>

\* _analyze_contextual_relevance(task, context)
RelevanceCall(task, context) ==
    /\ observed = Unset
    /\ observed' = [fn |-> "_analyze_contextual_relevance", task |-> task,
                    context |-> context, ret |-> AnalyzeContextualRelevance(task, context)]
    /\ UNCHANGED <<driver, action_history, current_plan, plan_step, stack, last_result, last_exec,
                   calls, faults, clock>>

\* what execute_task and _execute_complex_task do with a context: probe it, analyse
\* it, and build the planners' prompts from it
ProbeAndAnalyzeCall(task, url, elements, page_info, reply) ==
    LET context == GetPageContext(url, ProbeOk("Sign in"), ProbeOk(DefaultViewport), elements,
                                  page_info, current_plan, plan_step)
        situation == AnalyzeSituation(task, context, reply)
    IN
    /\ observed = Unset
    /\ observed' = [fn |-> "_analyze_situation", task |-> task, url |-> url,
                    context |-> context, reply |-> reply,
                    body |-> AnalyzeSituationBody(task, context, reply),
                    ret |-> situation,
                    action_prompt |-> ActionPrompt(task, context, situation),
                    steps_prompt |-> StepsPrompt(task, context, situation)]
    /\ UNCHANGED <<driver, action_history, current_plan, plan_step, stack, last_result, last_exec,
                   calls, faults, clock>>

NextAnalyzer ==
    \/ \E task \in IntentTasks : IntentCall(task)
    \/ \E context \in PageStateContexts : PageStateCall(context)
    \/ \E task \in RelevanceTasks, context \in RelevanceContexts : RelevanceCall(task, context)
    \/ \E task \in Tasks, url \in UrlProbes, elements \in ElementProbes,
          page_info \in PageInfoProbes, reply \in SituationReplies :
          ProbeAndAnalyzeCall(task, url, elements, page_info, reply)

SpecAnalyzer == Init /\ [][NextAnalyzer]_vars

----------------------------------------------------------------------------
(* evaluate_task_completion, called on an agent whose history is being filled *)

\* the value returned from the except clause
EvaluationFailed ==
    [completed |-> FALSE, evidence |-> "Evaluation failed", next_steps |-> << >>]

\* variant: a failure of the model call is not caught
EvaluateTaskCompletionRaises(context, reply) ==
    IF reply.ok THEN Returned(reply.data) ELSE Raised("Connection error.")

\* evaluate_task_completion: the parsed reply whatever it is, or the fallback
EvaluateTaskCompletion(context, reply) ==
    IF reply.ok THEN Returned(reply.data) ELSE Returned(EvaluationFailed)

\* the replies of the model to the evaluation prompt, once parsed as JSON
EvaluationReplies ==
    {ModelFailed,
     ModelReply([completed |-> TRUE, evidence |-> "The button was clicked",
                 next_steps |-> << >>]),
     ModelReply(JsonNull)}

\* evaluate_task_completion(original_task) while no task runs
EvaluateCall(original_task, url, reply) ==
    /\ Depth = 0
    /\ LET context == GetPageContext(url, ProbeOk("Sign in"), ProbeOk(DefaultViewport),
                                     ProbeOk(<< >>), ProbeOk(DefaultPageInfo),
                                     current_plan, plan_step)
       IN observed' = [fn |-> "evaluate_task_completion", task |-> original_task,
                       url |-> url, reply |-> reply, context |-> context,
                       ret |-> EvaluateTaskCompletion(context, reply)]
    /\ UNCHANGED <<driver, action_history, current_plan, plan_step, stack, last_result, last_exec,
                   calls, faults, clock>>

NextEvaluate ==
    \/ NextHistory
    \/ \E url \in UrlProbes, reply \in EvaluationReplies :
          EvaluateCall("click the button", url, reply)

SpecEvaluate == Init /\ [][NextEvaluate]_vars

----------------------------------------------------------------------------
(* The agent's tasks followed by an evaluation: evaluate_task_completion is
   explored once, after the last execute_task call has returned *)

LaterEvaluateCall(url) ==
    /\ calls = MaxCalls
    /\ observed = Unset
    /\ EvaluateCall("click the button", url, ModelFailed)

NextOwnership ==
    \/ Next
    \/ \E url \in UrlProbes : LaterEvaluateCall(url)

SpecOwnership == Init /\ [][NextOwnership]_vars

----------------------------------------------------------------------------
(* Complex tasks with a human who answers skip, retry or abort only.  The code is
   one synchronous thread: it always takes its next step, and every call into the
   driver, the model and the console returns or raises, hence the weak fairness. *)

\* the statements of a running call of execute_task on its complex path
TaskSteps ==
    \/ \E analysis \in Analyses,
          reply \in {ModelFailed} \cup {ModelReply(p) : p \in ModelPlans} :
          ComplexPlan(analysis, reply)
    \/ \E analysis \in Analyses : StepBegin(analysis)
    \/ \E o \in DriverOutcomes("screenshot") : StepExecute(o)
    \/ \E o \in DriverOutcomes("screenshot") : RecoverFromStepFailure(o)
    \/ \E msg \in ConsoleErrors : AskUserFails(msg)
    \/ \E typed \in HumanInputs, o \in DriverOutcomes("screenshot") : AskUserForHelp(typed, o)
    \/ StoreStep
    \/ ComplexReturn
    \/ Return

NextChoices ==
    \/ Depth = 0 /\ \E task \in Tasks : IsComplexTask(task) /\ Call(task)
    \/ TaskSteps

\* where the interpreter stands: no call in progress, or the statement, the step and
\* the number of events of the step the running call has reached
Position ==
    IF Depth = 0 THEN <<0, "", 0, 0>> ELSE <<Depth, Top.pc, Top.step_idx, Len(Top.log)>>

\* The interpreter does not stop in the middle of a call: while execute_task is on
\* the stack its next statement is eventually run.  The caller is under no
\* obligation to submit a task.
SpecChoices == Init /\ [][NextChoices]_vars /\ WF_vars(TaskSteps)

----------------------------------------------------------------------------
(* ChromeDriver: src/src/browser/chrome_driver.py.  The page behind the driver
   is the environment: each call into Playwright draws its outcome from a set. *)

\* max_retries = 3
MaxRetries == 3

\* the four references, in the order _cleanup releases them
DriverRefs == <<"page", "context", "browser", "playwright">>

\* the points where one pass through the try block of start can end: the
\* exception raised there, or success on one of the two launch paths
LaunchFailures ==
    {"select_profile", "sync_playwright", "launch", "launch_persistent_context",
     "new_context", "new_page"}
LaunchOutcomes == LaunchFailures \cup {"started", "started_persistent"}

\* the references the try block has assigned when it ends at `launch`
Launch(d, launch) ==
    LET pw == [d EXCEPT !.playwright = Some("playwright")]
        br == [pw EXCEPT !.browser = Some("browser")]
        cx == [br EXCEPT !.context = Some("context")]
    IN
    CASE launch \in {"select_profile", "sync_playwright"} -> d
      [] launch \in {"launch", "launch_persistent_context"} -> pw
      [] launch = "new_context" -> br
      [] launch = "new_page" -> cx
      [] launch = "started" -> [cx EXCEPT !.page = Some("page")]
      [] launch = "started_persistent" ->
            [pw EXCEPT !.context = Some("context"), !.page = Some("page")]

\* str(e) of the exception a failed launch raises
LaunchErrorMsg(launch) ==
    IF launch = "launch_persistent_context"
    THEN "ProcessSingleton: the profile is already in use"
    ELSE "Failed at " \o launch

\* what start raises after the last attempt: the profile conflict text or last_error
StartError(last_error) ==
    IF Contains(last_error, "ProcessSingleton") /\ Contains(last_error, "profile is already in use")
    THEN "Chrome Profile Conflict Detected"
    ELSE last_error

\* variant: one try block around the four closes, so the first close that raises
\* ends the cleanup
CleanupOneTry(d, failing) ==
    LET held == SelectSeq(DriverRefs, LAMBDA r : d[r].some)
        bad == {i \in DOMAIN held : held[i] \in failing}
        stop == IF bad = {} THEN Len(held) ELSE CHOOSE i \in bad : \A j \in bad : i <= j
        closes == SubSeq(held, 1, stop)
        closed == {closes[i] : i \in DOMAIN closes}
    IN [driver |-> [r \in DOMAIN d |->
                       IF r \in closed \/ (bad = {} /\ r # "keep_browser_open") THEN None
                       ELSE d[r]],
        closes |-> closes,
        errors |-> SelectSeq(closes, LAMBDA r : r \in failing)]

\* _cleanup: each reference that is set is closed inside its own try block and
\* unset in the finally clause; `failing` are the ones whose close raises
Cleanup(d, failing) ==
    LET closes == SelectSeq(DriverRefs, LAMBDA r : d[r].some) IN
    [driver |-> [d EXCEPT !.page = None, !.context = None, !.browser = None,
                          !.playwright = None],
     closes |-> closes,
     errors |-> SelectSeq(closes, LAMBDA r : r \in failing)]

\* stop: the cleanup, unless the browser is to be kept open
Stop(d, failing) ==
    IF ~d.keep_browser_open THEN Cleanup(d, failing)
    ELSE [driver |-> d, closes |-> << >>, errors |-> << >>]

\* the operations that need a page
PageOps ==
    {"navigate_to", "find_element", "execute_script", "take_screenshot", "get_page_source",
     "get_current_url"}

PageNotStarted == "Page not started"
NoneTypeErrorMsg == "'NoneType' object has no attribute"

\* variant: no check of self.page before the try block
PageOpUnguarded(d, op, o) ==
    IF d.page.some /\ o.status = "ok"
    THEN Returned(IF op = "take_screenshot" THEN "True" ELSE o.value)
    ELSE IF op = "take_screenshot" THEN Returned("False")
    ELSE Raised(IF d.page.some THEN o.msg ELSE NoneTypeErrorMsg)

\* navigate_to, execute_script, take_screenshot, get_page_source, get_current_url:
\* the guard, then the Playwright call inside try; take_screenshot returns False
\* where the others re-raise
PageOp(d, op, o) ==
    IF ~d.page.some THEN Raised(PageNotStarted)
    ELSE IF o.status = "ok"
    THEN Returned(IF op = "take_screenshot" THEN "True"
                  ELSE IF op = "navigate_to" THEN PyNone ELSE o.value)
    ELSE IF op = "take_screenshot" THEN Returned("False")
    ELSE Raised(o.msg)

\* _convert_selenium_selector
ConvertSeleniumSelector(by, value) ==
    CASE by = "id" -> "#" \o value
      [] by = "name" -> "[name='" \o value \o "']"
      [] by = "class_name" -> "." \o value
      [] by = "tag_name" -> value
      [] by = "link_text" -> "text=" \o value
      [] by = "partial_link_text" -> "text=" \o value
      [] by = "css" -> value
      [] by = "xpath" -> value
      [] OTHER -> value

ElementNotFoundMsg(by, value) ==
    "Element not found after trying multiple strategies: " \o by \o "=" \o value

\* find_element: the guard, the conversion, then the search strategies, each in
\* its own try block; `o` says whether any of them finds the element
FindElement(d, by, value, o) ==
    IF ~d.page.some THEN [selector |-> Unset, ret |-> Raised(PageNotStarted)]
    ELSE [selector |-> ConvertSeleniumSelector(by, value),
          ret |-> IF o.status = "ok" THEN Returned("element")
                  ELSE Raised(ElementNotFoundMsg(by, value))]

\* what the page behind the driver can do with one call
PageOutcomes == {DriverOk, DriverRaise("Target closed")}

\* the sets of references whose close raises, as explored
FailingCloses ==
    {{}, {"page"}, {"context"}, {"browser", "playwright"},
     {"page", "context", "browser", "playwright"}}

\* no call of start is in progress
DriverIdle ==
    IF observed = Unset \/ observed.fn # "start" THEN TRUE
    ELSE observed.state \notin {"attempt", "sleep"}

\* driver.set_keep_open(keep_open)
SetKeepOpen(keep_open) ==
    /\ DriverIdle
    /\ driver' = [driver EXCEPT !.keep_browser_open = keep_open]
    /\ observed' = [fn |-> "set_keep_open", before |-> driver, ret |-> Returned(PyNone)]
    /\ UNCHANGED <<action_history, current_plan, plan_step, stack, last_result, last_exec,
                   calls, faults, clock>>

\* driver.start(): the loop is entered
StartCall ==
    /\ DriverIdle
    /\ observed' = [fn |-> "start", before |-> driver, attempts |-> << >>,
                    state |-> "attempt", ret |-> Unset]
    /\ UNCHANGED <<driver, action_history, current_plan, plan_step, stack, last_result,
                   last_exec, calls, faults, clock>>

\* variant: the loop runs once more than max_retries
AfterAttemptOneMore(ok, attempt) ==
    IF ok THEN "returned" ELSE IF attempt < MaxRetries THEN "sleep" ELSE "raised"

\* where iteration number `attempt` of range(max_retries) leaves the loop: return
\* on success, sleep before the next iteration, or fall out of the loop and raise
AfterAttempt(ok, attempt) ==
    IF ok THEN "returned" ELSE IF attempt < MaxRetries - 1 THEN "sleep" ELSE "raised"

\* one iteration of the loop: the try block ends at `launch`; on an exception the
\* except clause runs _cleanup, then either the loop sleeps or start raises
StartAttempt(launch, failing) ==
    /\ Called("start")
    /\ observed.state = "attempt"
    /\ LET launched == Launch(driver, launch)
           cleaned == Cleanup(launched, failing)
           ok == launch \notin LaunchFailures
           attempt == Len(observed.attempts)
           entry == [launch |-> launch, assigned |-> launched,
                     closes |-> IF ok THEN << >> ELSE cleaned.closes]
       IN /\ driver' = IF ok THEN launched ELSE cleaned.driver
          /\ observed' = [observed EXCEPT
                            !.attempts = Append(@, entry),
                            !.state = AfterAttempt(ok, attempt),
                            !.ret = CASE AfterAttempt(ok, attempt) = "returned" ->
                                           Returned(PyNone)
                                      [] AfterAttempt(ok, attempt) = "sleep" -> Unset
                                      [] OTHER -> Raised(StartError(LaunchErrorMsg(launch)))]
    /\ UNCHANGED <<action_history, current_plan, plan_step, stack, last_result, last_exec,
                   calls, faults, clock>>

\* time.sleep(2) before the next attempt
StartBackoff ==
    /\ Called("start")
    /\ observed.state = "sleep"
    /\ observed' = [observed EXCEPT !.state = "attempt"]
    /\ UNCHANGED <<driver, action_history, current_plan, plan_step, stack, last_result,
                   last_exec, calls, faults, clock>>

\* driver.stop()
StopCall(failing) ==
    /\ DriverIdle
    /\ LET s == Stop(driver, failing) IN
       /\ driver' = s.driver
       /\ observed' = [fn |-> "stop", before |-> driver, closes |-> s.closes,
                       errors |-> s.errors, ret |-> Returned(PyNone)]
    /\ UNCHANGED <<action_history, current_plan, plan_step, stack, last_result, last_exec,
                   calls, faults, clock>>

\* one of the page operations is called
PageOpCall(op, o) ==
    /\ DriverIdle
    /\ observed' = [fn |-> op, before |-> driver, outcome |-> o,
                    after |-> IF observed = Unset THEN "__init__" ELSE observed.fn,
                    ret |-> IF op = "find_element" THEN FindElement(driver, "css", "#go", o).ret
                            ELSE PageOp(driver, op, o)]
    /\ UNCHANGED <<driver, action_history, current_plan, plan_step, stack, last_result,
                   last_exec, calls, faults, clock>>

\* the discriminators explored: those of the planner prompt, one in capitals, one
\* the prompt does not list
DriverByValues == ByValues \cup {"label"}

\* the selector-taking actions a plan can hold, with and without `by`
SelectorActions ==
    {BrowserActionOf(kind, p) :
        kind \in {"click", "type", "get_text", "get_attribute"},
        p \in {[selector |-> "go", text |-> "hello", attribute |-> "href"]}
              \cup {[selector |-> "go", text |-> "hello", attribute |-> "href", by |-> b] :
                      b \in DriverByValues}}

\* _execute_action dispatches a selector-taking action: click_element, send_keys,
\* get_text and get_attribute all begin with find_element(by, value)
FindElementCall(action, o) ==
    /\ DriverIdle
    /\ LET call == DriverCall(action)
           found == FindElement(driver, call.by, call.value, o)
       IN observed' = [fn |-> "find_element", before |-> driver, action |-> action,
                       via |-> call.method, by |-> call.by, value |-> call.value,
                       selector |-> found.selector, ret |-> found.ret]
    /\ UNCHANGED <<driver, action_history, current_plan, plan_step, stack, last_result,
                   last_exec, calls, faults, clock>>

NextDriver ==
    \/ \E keep_open \in BOOLEAN : SetKeepOpen(keep_open)
    \/ StartCall
    \/ \E launch \in LaunchOutcomes, failing \in FailingCloses : StartAttempt(launch, failing)
    \/ StartBackoff
    \/ \E failing \in FailingCloses : StopCall(failing)
    \/ \E op \in PageOps, o \in PageOutcomes : PageOpCall(op, o)

SpecDriver == Init /\ [][NextDriver]_vars

\* the executor on a driver that is started, or fails to start, without further faults
NextSelector ==
    \/ StartCall
    \/ \E launch \in {"started", "started_persistent", "sync_playwright"} :
          StartAttempt(launch, {})
    \/ StartBackoff
    \/ \E action \in SelectorActions, o \in PageOutcomes : FindElementCall(action, o)

SpecSelector == Init /\ [][NextSelector]_vars

----------------------------------------------------------------------------
(* The agent session: `with BrowserAgent(...) as agent: body`
   (BrowserAgent.__init__, start, stop, __enter__, __exit__).  The driver's start
   is taken as a whole here: it ends where its last launch attempt ended. *)

\* driver.start() as a whole: the references of a successful launch, or everything
\* released and the error of the last attempt raised
StartResult(d, launch) ==
    IF launch \in LaunchFailures
    THEN [driver |-> Cleanup(Launch(d, launch), {}).driver,
          ret |-> Raised(StartError(LaunchErrorMsg(launch)))]
    ELSE [driver |-> Launch(d, launch), ret |-> Returned(PyNone)]

\* BrowserAgent.start: an exception of the driver's start becomes an AgentError
AgentStart(d, launch) ==
    LET r == StartResult(d, launch) IN
    IF r.ret.raised
    THEN [driver |-> r.driver,
          ret |-> [type |-> "AgentError"]
                  @@ Raised("Failed to start browser agent: " \o r.ret.msg)]
    ELSE r

\* variant: stop without its try block
AgentStopPropagates(d, failing, o) ==
    IF o.status = "raise" THEN [driver |-> d, ret |-> Raised(o.msg)]
    ELSE [driver |-> Stop(d, failing).driver, ret |-> Returned(PyNone)]

\* BrowserAgent.stop: the driver's stop inside try; an exception it raises is logged
AgentStop(d, failing, o) ==
    IF o.status = "raise" THEN [driver |-> d, ret |-> Returned(PyNone)]
    ELSE [driver |-> Stop(d, failing).driver, ret |-> Returned(PyNone)]

\* what the body of the with statement can end with: what a call of execute_task
\* under its retry policy can
BodyOutcomes == AttemptOutcomes

\* what the driver's stop can do when the agent calls it: the driver of this
\* repository, or a driver whose stop raises
StopOutcomes == {DriverOk, DriverRaise("Stop failed")}

\* the with statement is reached: BrowserAgent(keep_browser_open=keep) builds the
\* agent and its driver
WithCall(keep) ==
    /\ IF observed = Unset THEN TRUE ELSE observed.fn = "with" /\ observed.state = "done"
    /\ driver' = [NewChromeDriver EXCEPT !.keep_browser_open = keep]
    /\ observed' = [fn |-> "with", events |-> << >>, state |-> "enter", body |-> Unset,
                    ret |-> Unset]
    /\ UNCHANGED <<action_history, current_plan, plan_step, stack, last_result, last_exec,
                   calls, faults, clock>>

\* __enter__: self.start(); when it raises the with statement is left and __exit__
\* is not called
Enter(launch) ==
    /\ Called("with")
    /\ observed.state = "enter"
    /\ LET s == AgentStart(driver, launch) IN
       /\ driver' = s.driver
       /\ observed' = [observed EXCEPT
                         !.events = Append(@, [call |-> "driver.start",
                                               ret |-> StartResult(driver, launch).ret,
                                               agent |-> s.ret]),
                         !.state = IF s.ret.raised THEN "done" ELSE "body",
                         !.ret = IF s.ret.raised THEN s.ret ELSE Unset]
    /\ UNCHANGED <<action_history, current_plan, plan_step, stack, last_result, last_exec,
                   calls, faults, clock>>

\* the body of the with statement runs to its end or raises
Body(outcome) ==
    /\ Called("with")
    /\ observed.state = "body"
    /\ observed' = [observed EXCEPT !.state = "exit", !.body = outcome]
    /\ UNCHANGED <<driver, action_history, current_plan, plan_step, stack, last_result,
                   last_exec, calls, faults, clock>>

\* __exit__: self.stop(); it returns None, so an exception of the body goes on
Exit(failing, o) ==
    /\ Called("with")
    /\ observed.state = "exit"
    /\ LET s == AgentStop(driver, failing, o) IN
       /\ driver' = s.driver
       /\ observed' = [observed EXCEPT
                         !.events = Append(@, [call |-> "driver.stop",
                                               ret |-> IF o.status = "raise"
                                                       THEN Raised(o.msg)
                                                       ELSE Returned(PyNone),
                                               errors |-> IF o.status = "raise" THEN << >>
                                                          ELSE Stop(driver, failing).errors,
                                               agent |-> s.ret]),
                         !.state = "done",
                         !.ret = IF s.ret.raised THEN s.ret ELSE observed.body]
    /\ UNCHANGED <<action_history, current_plan, plan_step, stack, last_result, last_exec,
                   calls, faults, clock>>

NextSession ==
    \/ \E keep \in BOOLEAN : WithCall(keep)
    \/ \E launch \in LaunchOutcomes : Enter(launch)
    \/ \E outcome \in BodyOutcomes : Body(outcome)
    \/ \E failing \in FailingCloses, o \in StopOutcomes : Exit(failing, o)

SpecSession == Init /\ [][NextSession]_vars

----------------------------------------------------------------------------
(* Properties *)

Frames == 1..Len(stack)
LastEvent(f) == f.log[Len(f.log)]

\* C1: when a plan step fails, the identical action is executed once more, exactly
\* once, by the step recovery; the human is asked only if that one retry failed too,
\* never before it and never when it succeeded.
C1_RetryOnceThenAsk ==
    \A n \in Frames :
        LET f == stack[n]
            L == f.log
        IN
        /\ Cardinality({i \in DOMAIN L : L[i].ev = "recover"}) <= 1
        /\ \A i \in DOMAIN L :
              /\ L[i].ev = "recover" =>
                    /\ i > 1
                    /\ L[i - 1].ev = "exec"
                    /\ ~L[i - 1].success
                    /\ L[i].action = L[i - 1].action
              /\ (L[i].ev = "exec" /\ ~L[i].success) =>
                    IF i = Len(L) THEN f.pc = "recover" ELSE L[i + 1].ev = "recover"
              /\ L[i].ev = "ask" =>
                    /\ i > 1
                    /\ L[i - 1].ev = "recover"
                    /\ ~L[i - 1].success
        /\ f.pc = "ask" => (Len(L) > 0 /\ LastEvent(f).ev = "recover" /\ ~LastEvent(f).success)

\* a step failed, its one retry failed, and the human was asked
C1_Witness ==
    \E n \in Frames :
        LET L == stack[n].log IN
        /\ Len(L) >= 4
        /\ L[2].ev = "exec" /\ ~L[2].success
        /\ L[3].ev = "recover" /\ ~L[3].success /\ L[3].action = L[2].action
        /\ L[4].ev = "ask"

\* C2: a step that failed, failed its retry and was answered with 'skip' counts as
\* a success: the plan goes on to the history and the next steps, and when every
\* remaining step resolves the task returns success with completed_steps equal to
\* the plan length.
C2_SkipContinues ==
    \A n \in Frames :
        LET f == stack[n]
            L == f.log
        IN
        /\ (Len(L) > 0 /\ LastEvent(f).ev = "ask" /\ LastEvent(f).note = "skip") =>
              /\ f.pc = "store"
              /\ f.user_recovery.success
              /\ f.user_recovery.data = Some(StrData("User skipped step"))
        /\ (\E i \in DOMAIN L : L[i].ev = "ask" /\ L[i].note = "skip") =>
              \/ f.pc \in {"store", "loop"}
              \/ f.pc = "return" /\ f.ret.success
        /\ (f.pc = "return" /\ f.skipped # {} /\ f.stored = Len(f.plan)) =>
              /\ f.ret.success
              /\ f.ret.data = Some([completed_steps |-> Len(f.plan)])

\* the first step of a two-step plan was skipped, the second was executed, and the
\* task returns success
C2_Witness ==
    \E n \in Frames :
        LET f == stack[n] IN
        /\ f.pc = "return"
        /\ f.ret.success
        /\ Len(f.plan) = 2
        /\ 1 \in f.skipped
        /\ f.executed = 2

\* C3: a step that failed, failed its retry and was answered with 'abort' ends the
\* task: it returns success = false with the error "Plan failed at step k: <that
\* step's error>", k the 1-based index of the failing step, and no later step runs.
C3_AbortEndsTask ==
    \A n \in Frames :
        LET f == stack[n]
            L == f.log
        IN
        \A i \in DOMAIN L :
            (L[i].ev = "ask" /\ L[i].note = "abort") =>
                /\ i = Len(L)
                /\ f.pc = "return"
                /\ ~f.user_recovery.success
                /\ ~f.ret.success
                /\ f.ret.error = Some("Plan failed at step " \o NatStr(f.executed) \o ": "
                                      \o FmtOpt(f.result.error))
                /\ f.executed = f.step_idx + 1
                /\ ~f.result.success

\* the human aborted at the second step of a plan
C3_Witness ==
    \E n \in Frames :
        LET f == stack[n] IN
        /\ Len(f.log) > 0
        /\ LastEvent(f).ev = "ask" /\ LastEvent(f).note = "abort"
        /\ f.executed = 2
        /\ f.pc = "return"

\* C4 as stated: after a free-text answer the rest of the original plan is
\* abandoned, no further step of it is executed once the replacement task returns.
C4_RemainderAbandoned ==
    \A n \in Frames : stack[n].replaced_at > 0 => stack[n].executed <= stack[n].replaced_at

\* C4 amended: a free-text answer is executed, stripped and lower-cased, as a new
\* execute_task call; its result stands in for the failed step: if it succeeded the
\* plan goes on with the history and the next step, and only if it failed is the
\* rest of the plan abandoned with "Plan failed at step k".
C4_NewTaskResolvesStep ==
    \A n \in Frames :
        LET f == stack[n]
            L == f.log
        IN
        /\ f.pc = "await_task" =>
              /\ n < Len(stack)
              /\ Len(L) > 0
              /\ LastEvent(f).ev = "ask"
              /\ LastEvent(f).note \notin {"skip", "retry", "abort"}
              /\ stack[n + 1].task = LastEvent(f).note
              /\ f.replaced_at > 0
        /\ (Len(L) > 0 /\ LastEvent(f).ev = "task_returned") =>
              /\ f.user_recovery.success = LastEvent(f).success
              /\ IF LastEvent(f).success
                 THEN f.pc = "store"
                 ELSE /\ f.pc = "return"
                      /\ ~f.ret.success
                      /\ f.executed = f.step_idx + 1

\* a step was answered with free text and a later step of the same plan was executed
C4_Witness ==
    \E n \in Frames : stack[n].replaced_at > 0 /\ stack[n].executed > stack[n].replaced_at

\* C5: a history entry is appended for every executed step whatever its outcome,
\* also for the failing step that ends the task.
C5_EveryExecutedStepStored ==
    \A n \in Frames : stack[n].pc = "return" => stack[n].stored = stack[n].executed

\* C6: after N calls of _store_action_history the history holds the min(N, 10)
\* most recent entries in insertion order: the oldest goes when the 11th arrives.
C6_HistoryKeepsLastTen ==
    /\ Len(action_history) = (IF clock < HistoryLimit THEN clock ELSE HistoryLimit)
    /\ \A i \in DOMAIN action_history :
          action_history[i].timestamp = clock - Len(action_history) + i - 1

\* more than ten entries were stored
C6_Witness == clock > HistoryLimit /\ Len(action_history) = HistoryLimit

\* C7: for every action kind, when the driver call raises, _execute_action returns
\* (it does not raise) a result with success = false and a non-empty error.
C7_DriverExceptionBecomesFailure ==
    (last_exec # Unset /\ last_exec.outcome.status = "raise") =>
        /\ ~last_exec.ret.raised
        /\ ~last_exec.ret.val.success
        /\ last_exec.ret.val.error.some
        /\ last_exec.ret.val.error.val # ""
        /\ last_exec.ret.val.error.val = last_exec.outcome.msg

\* the driver raised under a scroll action
C7_Witness ==
    /\ last_exec # Unset
    /\ last_exec.outcome.status = "raise"
    /\ last_exec.action.action = "scroll"

\* C8: every result of _execute_action has error absent when success is true and
\* error present when success is false.
C8_ExactlyOneOfDataError ==
    (last_exec # Unset /\ ~last_exec.ret.raised) =>
        LET r == last_exec.ret.val IN
        /\ r.success => ~r.error.some
        /\ ~r.success => r.error.some

\* C9: every execute_task call that fails returns success = false with an error
\* that is present, non-empty and contains the text of the original error.
C9_FailureCarriesError ==
    \A n \in Frames :
        LET f == stack[n] IN
        (f.pc = "return" /\ ~f.escaped /\ ~f.ret.success) =>
            /\ f.ret.error.some
            /\ f.ret.error.val # ""
            /\ f.error # "" => Contains(f.ret.error.val, f.error)
            /\ (f.result # Unset /\ ~f.result.success /\ f.result.error.some) =>
                  Contains(f.ret.error.val, f.result.error.val)

SingleActionPlanningFailed(reply) ==
    \/ ~reply.ok
    \/ Late(reply)
    \/ reply.data.action \notin ActionType

HasNavigationKeyword(task) ==
    \E k \in {"navigate", "go to", "visit"} : Contains(Lower(task), k)

\* url occurs in task as a maximal run of non-space characters from a scheme on
IsUrlOf(url, task) ==
    /\ \/ (Len(url) > 7 /\ SubSeq(url, 1, 7) = "http://")
       \/ (Len(url) > 8 /\ SubSeq(url, 1, 8) = "https://")
    /\ ~Contains(url, " ")
    /\ \E i \in 1..Len(task) :
          /\ i + Len(url) - 1 <= Len(task)
          /\ SubSeq(task, i, i + Len(url) - 1) = url
          /\ (i + Len(url) - 1 = Len(task) \/ SubSeq(task, i + Len(url), i + Len(url)) = " ")

HasUrl(task) ==
    \E i \in 1..Len(task), n \in 1..Len(task) :
        i + n - 1 <= Len(task) /\ IsUrlOf(SubSeq(task, i, i + n - 1), task)

\* the result is the alternative-element branch's: data names the selector clicked
RecoveredWithAlternative(ret) ==
    ret.success /\ ret.data.some /\ DOMAIN ret.data.val = {"recovered_with"}

\* C11 as stated: without an alternative-element result, _recover_from_error
\* returns the result of the first generic recovery action (wait, then reload) that
\* reports success, and a failure only if neither does.
C11_ReturnsFirstSuccessfulRecovery ==
    (Called("_recover_from_error") /\ ~RecoveredWithAlternative(observed.ret)) =>
        LET run == observed.run
            ok == {i \in DOMAIN run : run[i].ret.val.success}
        IN  IF ok # {}
            THEN observed.ret = run[CHOOSE i \in ok : \A j \in ok : i <= j].ret.val
            ELSE ~observed.ret.success

\* C11 amended: without an alternative-element result, _recover_from_error runs
\* the generic recovery actions in order and stops at the first that reports
\* success (the 2-second wait, so the reload is not run), and then returns a failure
\* whose error is "Original error: <error>. Recovery attempted." whatever the
\* recovery actions reported.
C11_RecoveryAlwaysReportsFailure ==
    (Called("_recover_from_error") /\ ~RecoveredWithAlternative(observed.ret)) =>
        /\ ~observed.ret.success
        /\ observed.ret.error =
              Some("Original error: " \o observed.error \o ". Recovery attempted.")
        /\ Len(observed.run) = 1
        /\ observed.run[1].action.action = "wait"
        /\ observed.run[1].action.parameters.seconds = 2
        /\ observed.run[1].ret.val.success
        /\ observed.ret.screenshot_path =
              (IF observed.shot.status = "ok"
               THEN Some("error_recovery_" \o NatStr(clock) \o ".png")
               ELSE None)

\* the recovery ran for an error outside the element pattern: the wait reported
\* success and the call returned failure
C11_Witness ==
    /\ Called("_recover_from_error")
    /\ observed.error = JoinErrorMsg
    /\ observed.run[1].ret.val.success
    /\ ~observed.ret.success

\* C12: called with an element-not-found/timeout error on a page that has a
\* clickable element whose text shares a keyword with the task, _recover_from_error
\* clicks that element and, the click succeeding, returns success with the selector.
C12_AlternativeElementClicked ==
    (/\ Called("_recover_from_error")
     /\ \/ Contains(observed.error, "Element not found")
        \/ Contains(observed.error, "Timeout")
     /\ observed.shot.status # "raise"
     /\ observed.click.status = "ok"
     /\ \E i \in DOMAIN observed.elements :
           LET el == observed.elements[i]
               words == Split(Lower(observed.task))
           IN  /\ \E k \in DOMAIN words : Contains(Lower(el.text), words[k])
               /\ Len(el.selectors) > 0
               /\ (Lower(el.tag) \in {"button", "a"} \/ el.is_clickable))
    => /\ observed.ret.success
       /\ observed.ret.data.some
       /\ \E i \in DOMAIN observed.elements :
             /\ Len(observed.elements[i].selectors) > 0
             /\ observed.ret.data.val = [recovered_with |-> observed.elements[i].selectors[1]]

\* C16: when the model call or the parsing of its reply fails and the task has a
\* navigation keyword and an http(s) URL, _generate_action_plan returns a Navigate
\* action whose url is the URL of the task text, not the Screenshot fallback.
C16_FallbackNavigatesToUrl ==
    (/\ Called("_generate_action_plan")
     /\ SingleActionPlanningFailed(observed.reply)
     /\ HasNavigationKeyword(observed.task)
     /\ HasUrl(observed.task))
    => /\ "action" \in DOMAIN observed.ret
       /\ observed.ret.action = "navigate"
       /\ DOMAIN observed.ret.parameters = {"url"}
       /\ IsUrlOf(observed.ret.parameters.url, observed.task)
       /\ observed.task = "navigate to https://example.com" =>
             observed.ret.parameters.url = "https://example.com"

\* the model call failed for a task that names a URL after a navigation keyword
C16_Witness ==
    /\ Called("_generate_action_plan")
    /\ ~observed.reply.ok
    /\ observed.task = "Visit http://a.b/c?d=1 please"
    /\ observed.ret.action = "navigate"
    /\ observed.ret.parameters.url = "http://a.b/c?d=1"

\* C17: when the model call or the parsing of its reply fails and the task has no
\* URL, _generate_action_plan returns the Screenshot fallback; in every failure case
\* it returns a BrowserAction and does not raise.
C17_FallbackScreenshot ==
    (Called("_generate_action_plan") /\ SingleActionPlanningFailed(observed.reply)) =>
        /\ "action" \in DOMAIN observed.ret
        /\ observed.ret.action \in ActionType
        /\ {"parameters", "description"} \subseteq DOMAIN observed.ret
        /\ ~HasUrl(observed.task) =>
              /\ observed.ret.action = "screenshot"
              /\ observed.ret.parameters = [filename |-> "fallback_screenshot.png"]

\* the reply did not parse into a BrowserAction and the task names no URL
C17_Witness ==
    /\ Called("_generate_action_plan")
    /\ observed.reply.ok
    /\ observed.reply.data.action \notin ActionType
    /\ observed.task = "go to the page"
    /\ observed.ret.action = "screenshot"

\* C19: a task is classified complex exactly when its lower-cased text contains one
\* of the 12 keywords as a substring, and execute_task takes the complex path exactly
\* when the task is classified complex; "navigate to x and click y" is complex,
\* "click the button" is simple.
C19_ComplexIffKeyword ==
    Called("execute_task") =>
        LET complex ==
                \E k \in {"and", "then", "after", "navigate to", "search for", "fill out",
                          "login", "register", "purchase", "checkout", "multiple",
                          "several"} : Contains(Lower(observed.task), k)
        IN  /\ observed.classified = complex
            /\ observed.frame.pc = (IF complex THEN "complex_plan" ELSE "simple_analyze")
            /\ observed.task = "navigate to x and click y" => observed.classified
            /\ observed.task = "click the button" => ~observed.classified

\* a task with a keyword only inside a longer word, and in upper case, went complex
C19_Witness ==
    /\ Called("execute_task")
    /\ observed.task \in {"take a sandwich photo", "Login"}
    /\ observed.frame.pc = "complex_plan"

\* C20: a planner's model call that exceeds its deadline is abandoned and the
\* planner returns its fallback, using nothing of the reply; for
\* _generate_action_plan and for _generate_multi_step_plan.
C20_LateReplyAbandoned ==
    /\ (Called("_generate_action_plan") /\ Late(observed.reply)) =>
          /\ observed.ret.action \in {"navigate", "screenshot"}
          /\ observed.ret # MakeBrowserAction(observed.reply.data).val
    /\ (Called("_generate_multi_step_plan") /\ Late(observed.reply)) =>
          /\ Len(observed.ret) = 1
          /\ observed.ret[1].action = "screenshot"
          /\ observed.ret # observed.reply.data

\* a frame of the complex path that is inside the loop body of step f.step_idx
InStep(f) == f.complex /\ f.pc \in {"execute", "recover", "ask", "await_task", "store"}

\* C13: for every step of a plan the cursor is advanced to the step's index, then
\* the page context is probed afresh for that step, then the step's action is
\* executed; the probe for a step comes after the execution of the step before it,
\* so no step runs against a context captured before an earlier step ran.
C13_ProbeBeforeEachStep ==
    \A n \in Frames :
        LET f == stack[n] IN
        /\ InStep(f) =>
              /\ f.probed = [step |-> f.step_idx, after |-> f.step_idx]
              /\ Len(f.log) > 0
              /\ f.log[1].ev = "begin"
              /\ \A i \in DOMAIN f.log : f.log[i].ev = "exec" => i = 2
        /\ f.pc = "execute" => (plan_step = f.step_idx /\ f.executed = f.step_idx)
        /\ (f.probed # Unset /\ f.probed.step >= 0) =>
              /\ f.probed.after = f.probed.step
              /\ f.executed \in {f.probed.step, f.probed.step + 1}

\* the second step of a plan is about to run, with a context captured after the first
C13_Witness ==
    \E n \in Frames :
        LET f == stack[n] IN
        /\ f.pc = "execute"
        /\ f.step_idx = 1
        /\ f.executed = 1
        /\ f.probed = [step |-> 1, after |-> 1]

\* C14: a simple-path execute_task that completes without an exception executes
\* exactly one action, after the analysis, appends exactly one history entry holding
\* the task, that action and its result, whether it succeeded or failed, and returns
\* that action's result.
C14_SimplePathOneActionOneEntry ==
    \A n \in Frames :
        LET f == stack[n] IN
        /\ (~f.complex /\ f.pc \in {"simple_analyze", "simple_act"}) =>
              (f.executed = 0 /\ f.stored = 0)
        /\ (~f.complex /\ f.pc = "return" /\ f.error = "") =>
              /\ f.executed = 1
              /\ f.ret = f.result
              /\ last_exec.action = f.action
              /\ last_exec.ret = Returned(f.result)
              /\ Len(action_history) > 0
              /\ LET h == action_history[Len(action_history)] IN
                    /\ h.task = f.task
                    /\ h.action = f.action
                    /\ h.result = f.result
                    /\ h.timestamp = clock - 1
              /\ \A i \in 1..(Len(action_history) - 1) :
                    action_history[i].timestamp < clock - 1

\* a simple task whose one action failed returned that failure, and it is in the history
C14_Witness ==
    \E n \in Frames :
        LET f == stack[n] IN
        /\ ~f.complex
        /\ f.pc = "return"
        /\ f.error = ""
        /\ ~f.ret.success
        /\ f.ret.error.some
        /\ Len(action_history) > 1
        /\ action_history[Len(action_history)].result = f.ret

C18_PlanningFallbackOneStep ==
    \A n \in Frames :
        LET f == stack[n] IN
        f.fallback =>
            /\ f.pc # "complex_plan"
            /\ Len(f.plan) = 1
            /\ f.plan[1].action = "screenshot"
            /\ f.step_idx <= 1
            /\ f.executed <= 1
            /\ (f.executed = 1 /\ f.action # Unset) =>
                  (f.action.action = "screenshot" /\ f.action.parameters = f.plan[1].parameters)
            /\ (f.pc = "return" /\ f.ret.success) =>
                  (f.executed = 1 /\ f.ret.data = Some([completed_steps |-> 1]))

\* planning failed, the one Screenshot step ran, and the task returned success
C18_Witness ==
    \E n \in Frames :
        LET f == stack[n] IN
        /\ f.fallback
        /\ f.pc = "return"
        /\ f.ret.success
        /\ f.executed = 1
        /\ f.action.action = "screenshot"

\* the keys of the data mapping each kind returns
DataKeys(kind) ==
    CASE kind = "navigate" -> {"url"}
      [] kind = "click" -> {"clicked"}
      [] kind = "type" -> {"typed", "into"}
      [] kind = "scroll" -> {"scrolled", "amount"}
      [] kind = "wait" -> {"waited"}
      [] kind = "screenshot" -> {"filename"}
      [] kind = "get_text" -> {"text"}
      [] kind = "get_attribute" -> {"attribute", "value"}
      [] kind = "execute_script" -> {"result"}

\* the value the code uses for parameter k of the last executed action
ParamOr(k, default) ==
    IF k \in DOMAIN last_exec.action.parameters THEN last_exec.action.parameters[k] ELSE default

\* C21: for each of the 9 kinds an action whose driver call succeeded returns
\* success = true, no error and the data shape of its kind; absent optional
\* parameters take the defaults by = css, direction = down, amount = 300,
\* seconds = 1, filename = screenshot.png; screenshot_path is set if and only if the
\* action is a Screenshot whose capture succeeded.
C21_DataShapeAndDefaults ==
    last_exec # Unset =>
        LET kind == last_exec.action.action
            r == last_exec.ret.val
            c == last_exec.call
        IN
        /\ ~last_exec.ret.raised
        /\ kind \in ActionType
        /\ r.screenshot_path.some <=> (kind = "screenshot" /\ last_exec.outcome.status = "ok")
        /\ r.screenshot_path.some => r.screenshot_path.val = ParamOr("filename", "screenshot.png")
        /\ kind \in {"click", "type", "get_text", "get_attribute"} =>
              c.by = Lower(ParamOr("by", "css"))
        /\ kind = "scroll" =>
              c.script = ScrollScript(ParamOr("direction", "down"), ParamOr("amount", 300))
        /\ kind = "wait" => c.seconds = ParamOr("seconds", 1)
        /\ kind = "screenshot" => c.filename = ParamOr("filename", "screenshot.png")
        /\ last_exec.outcome.status = "ok" =>
              /\ r.success
              /\ ~r.error.some
              /\ r.data.some
              /\ DOMAIN r.data.val = DataKeys(kind)
              /\ kind = "navigate" => r.data.val.url = ParamOr("url", PyNone)
              /\ kind = "click" => r.data.val.clicked = ParamOr("selector", PyNone)
              /\ kind = "type" =>
                    (r.data.val.typed = ParamOr("text", PyNone) /\ r.data.val.into = ParamOr("selector", PyNone))
              /\ kind = "scroll" =>
                    (r.data.val.scrolled = ParamOr("direction", "down") /\ r.data.val.amount = ParamOr("amount", 300))
              /\ kind = "wait" => r.data.val.waited = ParamOr("seconds", 1)
              /\ kind = "screenshot" => r.data.val.filename = ParamOr("filename", "screenshot.png")
              /\ kind = "get_text" => r.data.val.text = last_exec.outcome.value
              /\ kind = "get_attribute" =>
                    (r.data.val.attribute = ParamOr("attribute", PyNone) /\ r.data.val.value = last_exec.outcome.value)
              /\ kind = "execute_script" => r.data.val.result = last_exec.outcome.value

\* a Screenshot without a filename was captured: the default name is the path
C21_Witness ==
    /\ last_exec # Unset
    /\ last_exec.action.action = "screenshot"
    /\ last_exec.action.parameters = << >>
    /\ last_exec.outcome.status = "ok"
    /\ last_exec.ret.val.screenshot_path = Some("screenshot.png")

\* the plan of frame f holds a step whose kind is not an ActionType
HasUnknownKindStep(f) ==
    \E i \in 1..Len(f.plan) :
        "action" \in DOMAIN f.plan[i] /\ f.plan[i].action \notin ActionType

\* C22: an action of an unrecognized kind never raises out of the agent: given to
\* _execute_action directly it comes back as a failed result naming the kind, and
\* as a step of a model-generated plan it makes execute_task return a failed
\* result with an error.
C22_UnknownKindBecomesFailure ==
    /\ (last_exec # Unset /\ last_exec.action.action \notin ActionType) =>
          /\ ~last_exec.ret.raised
          /\ ~last_exec.ret.val.success
          /\ last_exec.ret.val.error = Some("Unknown action type: " \o last_exec.action.action)
    /\ \A n \in Frames :
          LET f == stack[n] IN
          (f.complex /\ f.pc = "return" /\ HasUnknownKindStep(f)) =>
              /\ ~f.escaped
              /\ ~f.ret.success
              /\ f.ret.error.some
              /\ f.ret.error.val # ""
    /\ last_result.some => ~last_result.val.raised

\* an unknown kind was executed directly, and a task whose plan reached a step of
\* an unknown kind has returned
C22_Witness ==
    /\ last_exec # Unset
    /\ last_exec.action.action = "hover"
    /\ \E n \in Frames :
          LET f == stack[n] IN
          /\ f.complex
          /\ f.pc = "return"
          /\ f.step_idx < Len(f.plan)
          /\ f.plan[f.step_idx + 1].action \notin ActionType
          /\ f.executed = f.step_idx
          /\ Contains(f.ret.error.val, ValidationMsg)

\* C23: the body of execute_task is attempted at most 3 times per call; every
\* attempt but the last one raised; an attempt that returned a result, successful
\* or failed, is the last attempt and its result is what the call returns.
C23_AtMostThreeAttempts ==
    Called("retry") =>
        LET attempts == observed.attempts IN
        /\ Len(attempts) <= 3
        /\ \A i \in 1..(Len(attempts) - 1) : attempts[i].raised
        /\ \A i \in 1..Len(attempts) :
              ~attempts[i].raised =>
                  /\ i = Len(attempts)
                  /\ observed.state = "returned"
                  /\ observed.out = attempts[i]
        /\ observed.state \in {"attempt", "sleep"} => Len(attempts) < 3
        /\ Len(observed.slept) <= 2

\* two attempts raised, the third returned a failed result, which was not retried
C23_Witness ==
    /\ Called("retry")
    /\ Len(observed.attempts) = 3
    /\ observed.attempts[1].raised
    /\ observed.attempts[2].raised
    /\ observed.state = "returned"
    /\ ~observed.out.val.success

\* the last call was a capture whose URL probe returned
Captured == Called("_get_page_context") /\ observed.url.status = "ok"

\* C24 as stated: a failed page-info probe gives every flag false and every count zero
C24_PageInfoDefaultAllFalse ==
    (Captured /\ observed.page_info.status = "raise") =>
        observed.ret.page_info =
            [forms |-> 0, links |-> 0, images |-> 0, has_login |-> FALSE,
             has_search |-> FALSE, page_ready |-> FALSE]

\* C24: each sub-probe of a capture fails on its own: a failed title probe gives
\* "Unknown", a failed viewport probe 1920x1080, a failed elements probe the empty
\* sequence, a failed page-info probe zero counts, has_login and has_search false
\* and page_ready true; every probe that returned keeps its value and the capture
\* returns a context without an error.
C24_SubProbesFailIndependently ==
    Captured =>
        LET ret == observed.ret IN
        /\ "error" \notin DOMAIN ret
        /\ ret.current_url = observed.url.value
        /\ ret.page_title =
              IF observed.title.status = "raise" THEN "Unknown" ELSE observed.title.value
        /\ ret.viewport_info =
              IF observed.viewport.status = "raise" THEN [width |-> 1920, height |-> 1080]
              ELSE observed.viewport.value
        /\ ret.interactive_elements =
              IF observed.elements.status = "raise" THEN << >> ELSE observed.elements.value
        /\ ret.page_info =
              IF observed.page_info.status = "raise"
              THEN [forms |-> 0, links |-> 0, images |-> 0, has_login |-> FALSE,
                    has_search |-> FALSE, page_ready |-> TRUE]
              ELSE observed.page_info.value

\* the title and page-info probes failed, the viewport and elements probes returned
C24_Witness ==
    /\ Captured
    /\ observed.title.status = "raise"
    /\ observed.page_info.status = "raise"
    /\ observed.viewport.status = "ok"
    /\ observed.elements.status = "ok"
    /\ Len(observed.ret.interactive_elements) = 2
    /\ observed.ret.page_title = "Unknown"

\* C25: when reading the current URL fails, the capture returns a context holding
\* the error and current_url "unknown"; the situation analysis, the prompt of the
\* single-action planner and the prompt of the multi-step planner are all computed
\* from that context without an exception, the analysis seeing a general, empty page.
C25_ErrorContextIsHarmless ==
    (Called("_analyze_situation") /\ observed.url.status = "raise") =>
        /\ observed.context = [error |-> observed.url.msg, current_url |-> "unknown"]
        /\ ~observed.action_prompt.raised
        /\ ~observed.steps_prompt.raised
        /\ observed.action_prompt.val.url = "unknown"
        /\ observed.body.raised => observed.body.msg = UpdateErrorMsg
        /\ IsJsonObject(Get(observed.reply, "data", << >>)) =>
              /\ ~observed.body.raised
              /\ observed.ret.page_analysis.type = "general"
              /\ observed.ret.page_analysis.state = "empty"
              /\ observed.ret.contextual_relevance.relevance_score.num = 0
        /\ {"task_analysis", "page_analysis", "contextual_relevance"} \subseteq DOMAIN observed.ret

\* the URL probe raised and the model call of the analysis failed as well
C25_Witness ==
    /\ Called("_analyze_situation")
    /\ observed.url.status = "raise"
    /\ "error" \in DOMAIN observed.context
    /\ ~observed.reply.ok
    /\ observed.ret.page_type = "general"
    /\ ~observed.action_prompt.raised

\* C26: when the model call of the situation analysis raises or its response cannot
\* be used, _analyze_situation returns an analysis with the deterministic page_type,
\* recommended_approach "standard", empty potential_obstacles and
\* success_indicators, and confidence_level 0.5.
C26_AnalysisFallback ==
    (/\ Called("_analyze_situation")
     /\ (~observed.reply.ok \/ ~IsJsonObject(observed.reply.data))) =>
        LET ret == observed.ret IN
        /\ {"page_type", "confidence_level", "recommended_approach", "potential_obstacles",
            "success_indicators"} \subseteq DOMAIN ret
        /\ ret.page_type = AnalyzePageState(observed.context).type
        /\ ret.recommended_approach = "standard"
        /\ ret.potential_obstacles = << >>
        /\ ret.success_indicators = << >>
        /\ ret.confidence_level = Half

\* C27: page_type is the first of login, search, form, checkout, shopping whose
\* condition holds, and general when none does; a page with a password field and a
\* search field is "login".
C27_PageTypePriority ==
    Called("_analyze_page_state") =>
        LET context == observed.context
            info == context.page_info
            login == info.has_login
            search == info.has_search
            form == info.forms > 0 \/ Contains(Lower(context.page_title), "form")
            checkout == \E i \in 1..Len(context.interactive_elements) :
                           Contains(Lower(context.interactive_elements[i].text), "checkout")
            cart == \E i \in 1..Len(context.interactive_elements) :
                       Contains(Lower(context.interactive_elements[i].text), "cart")
            type == observed.ret.type
        IN
        /\ login => type = "login"
        /\ (~login /\ search) => type = "search"
        /\ (~login /\ ~search /\ form) => type = "form"
        /\ (~login /\ ~search /\ ~form /\ checkout) => type = "checkout"
        /\ (~login /\ ~search /\ ~form /\ ~checkout /\ cart) => type = "shopping"
        /\ (~login /\ ~search /\ ~form /\ ~checkout /\ ~cart) => type = "general"

\* a page with a password field, a search field, a form and a checkout button
C27_Witness ==
    /\ Called("_analyze_page_state")
    /\ observed.context.page_info.has_login
    /\ observed.context.page_info.has_search
    /\ observed.context.page_info.forms > 0
    /\ Len(observed.context.interactive_elements) = 2
    /\ observed.ret.type = "login"

\* the indices of the elements whose text shares a word with the task
Matching(task, elements) ==
    {i \in 1..Len(elements) :
        \E w \in WordSet(Lower(task)) : w \in WordSet(Lower(elements[i].text))}

\* C28: relevance_score is the number of elements whose text shares a word with the
\* task over max(1, number of elements); it lies in [0, 1], is 0 when no element
\* shares a word with the task or there are no elements, and relevant_elements holds
\* at most 5 elements, each of them a matching one.
C28_RelevanceScore ==
    Called("_analyze_contextual_relevance") =>
        LET elements == observed.context.interactive_elements
            matching == Matching(observed.task, elements)
            score == observed.ret.relevance_score
        IN
        /\ score.den = (IF Len(elements) > 1 THEN Len(elements) ELSE 1)
        /\ score.num = Cardinality(matching)
        /\ 0 <= score.num
        /\ score.num <= score.den
        /\ matching = {} => score.num = 0
        /\ Len(observed.ret.relevant_elements) <= 5
        /\ Len(observed.ret.relevant_elements) =
              (IF Cardinality(matching) > 5 THEN 5 ELSE Cardinality(matching))
        /\ \A j \in 1..Len(observed.ret.relevant_elements) :
              \E i \in matching : observed.ret.relevant_elements[j] = elements[i]

\* six of seven elements share a word with the task: five are kept
C28_Witness ==
    /\ Called("_analyze_contextual_relevance")
    /\ Len(observed.context.interactive_elements) = 7
    /\ observed.ret.relevance_score = [num |-> 6, den |-> 7]
    /\ Len(observed.ret.relevant_elements) = 5

\* C29: complexity is "complex" when the multi_step tag is present or the task has
\* more than 10 words, "medium" when otherwise it has more than 5 words, and
\* "simple" in every other case.
C29_ComplexityFromTagAndWords ==
    Called("_analyze_task_intent") =>
        LET ret == observed.ret
            multi_step == "multi_step" \in ret.intent
            words == Len(Split(observed.task))
        IN
        /\ ret.word_count = words
        /\ multi_step <=> \E w \in {"and", "then", "after", "next", "finally"} :
                             Contains(Lower(observed.task), w)
        /\ (multi_step \/ words > 10) => ret.complexity = "complex"
        /\ (~multi_step /\ words > 5 /\ words <= 10) => ret.complexity = "medium"
        /\ (~multi_step /\ words <= 5) => ret.complexity = "simple"

\* a task of exactly ten words without a multi-step word is medium
C29_Witness ==
    /\ Called("_analyze_task_intent")
    /\ observed.ret.word_count = 10
    /\ "multi_step" \notin observed.ret.intent
    /\ observed.ret.complexity = "medium"

\* the last call was an evaluation whose model call or reply parsing failed
EvaluationFailure == Called("evaluate_task_completion") /\ ~observed.reply.ok

\* C30 as stated: a failed context probe, model call or parse gives completed =
\* false, evidence "evaluation failed" and no next steps
C30_FailureGivesEvaluationFailed ==
    (/\ Called("evaluate_task_completion")
     /\ (observed.url.status = "raise" \/ ~observed.reply.ok)) =>
        observed.ret = Returned([completed |-> FALSE, evidence |-> "evaluation failed",
                                 next_steps |-> << >>])

\* C30: evaluate_task_completion never raises and changes neither the history nor
\* the plan and its cursor; when the model call or the parsing of its reply fails
\* it returns completed = false, evidence "Evaluation failed" and no next steps;
\* a failed context probe only puts the error context into the prompt, and the
\* result is then the model's reply.
C30_EvaluationNeverRaises ==
    [][(observed' # observed /\ observed'.fn = "evaluate_task_completion") =>
          /\ ~observed'.ret.raised
          /\ ~observed'.reply.ok =>
                observed'.ret.val = [completed |-> FALSE, evidence |-> "Evaluation failed",
                                     next_steps |-> << >>]
          /\ observed'.reply.ok => observed'.ret.val = observed'.reply.data
          /\ observed'.url.status = "raise" =>
                observed'.context = [error |-> observed'.url.msg, current_url |-> "unknown"]
          /\ action_history' = action_history
          /\ current_plan' = current_plan
          /\ plan_step' = plan_step]_vars

\* the model call failed while the history held entries
C30_Witness ==
    /\ EvaluationFailure
    /\ observed.url.status = "ok"
    /\ observed.ret.val.evidence = "Evaluation failed"
    /\ Len(action_history) > 2

\* the native selector of a discriminator of the planner prompt for the value v
NativeSelector(by, v) ==
    CASE by = "id" -> "#" \o v
      [] by = "name" -> "[name='" \o v \o "']"
      [] by = "class" -> "." \o v
      [] by = "tag" -> v
      [] by \in {"link_text", "partial_link_text"} -> "text=" \o v
      [] OTHER -> v

\* C31: for every discriminator the planner may write on a click, type, get_text or
\* get_attribute action, the selector the driver searches the page with is the native
\* selector of that discriminator (id: #v, name: [name='v'], class: .v, tag: v,
\* link_text and partial_link_text: text=v, css and xpath: v), and a discriminator
\* that is not recognized is treated as css.
C31_BySelectorMapping ==
    (Called("find_element") /\ observed.before.page.some) =>
        observed.selector = NativeSelector(Get(observed.action.parameters, "by", "css"),
                                           observed.action.parameters.selector)

\* the references of DriverRefs that d holds, in that order
Held(d) == SelectSeq(DriverRefs, LAMBDA r : d[r].some)

\* C32: ChromeDriver.stop with keep_browser_open false never raises and ends with
\* page, context, browser and playwright all unset; every reference that was set is
\* closed, in that order, whether or not an earlier close raised.
C32_StopReleasesEverything ==
    (Called("stop") /\ ~observed.before.keep_browser_open) =>
        /\ ~observed.ret.raised
        /\ \A i \in DOMAIN DriverRefs : driver[DriverRefs[i]] = None
        /\ observed.closes = Held(observed.before)

\* C32 witness: all four references were set and closing the page raised
C32_Witness ==
    /\ Called("stop")
    /\ ~observed.before.keep_browser_open
    /\ Len(Held(observed.before)) = 4
    /\ observed.errors = <<"page">>
    /\ observed.closes = DriverRefs

\* the last call was a call of one of the operations that need a page
CalledPageOp == observed # Unset /\ observed.fn \in PageOps

\* C33 as stated: navigate_to, find_element, execute_script, take_screenshot,
\* get_page_source and get_current_url raise "Page not started" when called on a
\* new driver, after a start that failed, or after stop, and change no driver state.
C33_RaisesBeforeStartAndAfterStop ==
    (CalledPageOp /\ (observed.after \in {"__init__", "stop"} \/ ~observed.before.page.some)) =>
        /\ observed.ret.raised
        /\ observed.ret.msg = PageNotStarted
        /\ driver = observed.before

\* C33, amended: the six operations raise "Page not started" exactly when the driver
\* holds no page (a new driver, after a failed start, after a stop that released the
\* browser) and then change no driver state; after a stop with keep_browser_open set
\* the page is still held and the operation reaches it.
C33_RaisesWithoutPage ==
    CalledPageOp =>
        /\ driver = observed.before
        /\ ~observed.before.page.some =>
              observed.ret.raised /\ observed.ret.msg = PageNotStarted
        /\ observed.before.page.some =>
              ~(observed.ret.raised /\ observed.ret.msg = PageNotStarted)

\* C33 witness: take_screenshot right after a stop that released a started browser
C33_Witness ==
    /\ CalledPageOp
    /\ observed.fn = "take_screenshot"
    /\ observed.after = "stop"
    /\ driver.playwright = None
    /\ observed.ret.raised
    /\ observed.ret.msg = PageNotStarted

AllUnset(d) == \A i \in DOMAIN DriverRefs : d[DriverRefs[i]] = None

\* C39: ChromeDriver.start makes at most three launch attempts; a successful attempt
\* is the last one and start returns after it; every failed attempt is followed by the
\* cleanup of whatever it had assigned before the next attempt begins; after three
\* failed attempts start raises and page, context, browser and playwright are unset.
C39_StartRetriesWithCleanup ==
    Called("start") =>
        LET A == observed.attempts
            failed(i) == A[i].launch \in LaunchFailures
        IN
        /\ Len(A) <= MaxRetries
        /\ \A i \in DOMAIN A : i < Len(A) => failed(i)
        /\ \A i \in DOMAIN A : failed(i) => A[i].closes = Held(A[i].assigned)
        /\ (A # << >> /\ failed(Len(A))) => AllUnset(driver)
        /\ observed.state = "returned" <=> (A # << >> /\ ~failed(Len(A)))
        /\ observed.state = "returned" => ~observed.ret.raised /\ driver.page.some
        /\ observed.state = "raised" <=> (Len(A) = MaxRetries /\ failed(Len(A)))
        /\ observed.state = "raised" => observed.ret.raised /\ AllUnset(driver)

\* C39 witness: three attempts failed, one of them with the browser and the context
\* already open, and start raised
C39_Witness ==
    /\ Called("start")
    /\ observed.state = "raised"
    /\ Len(observed.attempts) = 3
    /\ observed.attempts[2].launch = "new_page"
    /\ observed.attempts[2].closes = <<"context", "browser", "playwright">>
    /\ AllUnset(driver)

\* C34: a with statement over the agent calls the driver's start exactly once on
\* entry and, once entered, the driver's stop exactly once on exit, whether the body
\* returned or raised, and the body's outcome is the statement's; if the driver's
\* start fails, entry raises AgentError; the agent's stop does not raise even when
\* the driver's stop does.
C34_StartOnceStopOnce ==
    Called("with") =>
        LET E == observed.events
            N(call) == Cardinality({i \in DOMAIN E : E[i].call = call})
        IN
        /\ N("driver.start") = (IF observed.state = "enter" THEN 0 ELSE 1)
        /\ N("driver.stop") = (IF observed.state = "done" /\ ~E[1].ret.raised THEN 1 ELSE 0)
        /\ \A i \in DOMAIN E : E[i].call = "driver.stop" => i = 2 /\ ~E[i].agent.raised
        /\ (observed.state = "done" /\ ~E[1].ret.raised) => observed.ret = observed.body
        /\ (observed.state # "enter" /\ E[1].ret.raised) =>
              /\ observed.state = "done"
              /\ observed.ret.raised
              /\ "type" \in DOMAIN observed.ret
              /\ observed.ret.type = "AgentError"
              /\ observed.ret.msg =
                    "Failed to start browser agent: " \o E[1].ret.msg

\* C34 witness: the body raised, the driver's stop raised, and the statement ended
\* with the body's exception after one start and one stop
C34_Witness ==
    /\ Called("with")
    /\ observed.state = "done"
    /\ Len(observed.events) = 2
    /\ observed.body.raised
    /\ observed.ret = observed.body
    /\ observed.events[2].ret.raised
    /\ driver.page.some

\* C35: when _generate_action_plan has returned, whether the model answered, timed
\* out, raised another exception or answered with text that does not parse, no alarm
\* deadline is armed, so none can fire afterwards.
C35_NoAlarmLeftArmed ==
    Called("_generate_action_plan") => observed.alarm = "cancelled"

\* C36: in every reachable state, nested tasks included, when get_current_plan_status
\* reports has_plan the cursor is inside the stored plan, so 1 <= current_step <=
\* total_steps, remaining_steps >= 0 and progress_percentage <= 100; an empty plan is
\* reported as has_plan = false.
C36_CursorInsideStoredPlan ==
    LET status == GetCurrentPlanStatus(current_plan, plan_step) IN
    /\ (current_plan.some /\ current_plan.val = << >>) => ~status.has_plan
    /\ status.has_plan =>
          /\ 0 <= plan_step /\ plan_step < Len(current_plan.val)
          /\ 1 <= status.current_step /\ status.current_step <= status.total_steps
          /\ status.remaining_steps >= 0
          /\ status.progress_percentage <= 1000

\* a step that writes current_plan or plan_step is a step of _execute_complex_task:
\* the one that stores the plan, or the head of a loop iteration
WrittenByComplexTaskOnly ==
    (current_plan' # current_plan \/ plan_step' # plan_step) =>
        (Depth > 0 /\ Top.complex /\ Top.pc \in {"complex_plan", "loop"})

\* the step is an evaluation, which captures a page context
EvaluationStep == observed' # observed /\ observed'.fn = "evaluate_task_completion"

\* C37 as stated: current_plan and plan_step are written only by
\* _execute_complex_task; the simple path of execute_task with its error recovery,
\* _store_action_history and evaluate_task_completion leave both as they are, and
\* the plan and cursor of the last complex task are added as plan progress to every
\* page context captured afterwards.
C37_PlanProgressInEveryContext ==
    [][/\ WrittenByComplexTaskOnly
       /\ EvaluationStep =>
              /\ current_plan' = current_plan /\ plan_step' = plan_step
              /\ current_plan.some => "plan_progress" \in DOMAIN observed'.context]_vars

\* C37, amended: the same ownership; the plan progress is added to a later page
\* context exactly when the stored plan is not empty and the capture did not end in
\* the error context, and it then shows the stored cursor and plan length.
C37_PlanOwnedByComplexTask ==
    [][/\ WrittenByComplexTaskOnly
       /\ EvaluationStep =>
              LET c == observed'.context IN
              /\ current_plan' = current_plan /\ plan_step' = plan_step
              /\ "plan_progress" \in DOMAIN c <=>
                    (current_plan.some /\ current_plan.val # << >> /\ "error" \notin DOMAIN c)
              /\ "plan_progress" \in DOMAIN c =>
                    /\ c.current_plan_step = plan_step
                    /\ c.total_plan_steps = Len(current_plan.val)]_vars

\* C37 witness: a complex task stored its two-step plan, a simple task ran after it
\* and was recorded, and the context of the evaluation still shows step 2 of 2
C37_Witness ==
    /\ Called("evaluate_task_completion")
    /\ current_plan.some
    /\ Len(current_plan.val) = 2
    /\ action_history # << >>
    /\ action_history[Len(action_history)].task = "click the button"
    /\ "plan_progress" \in DOMAIN observed.context
    /\ observed.context.plan_progress = "2/2"

\* the events of the current step in which the step's action was executed
Executions(f) == {i \in DOMAIN f.log : f.log[i].ev \in {"exec", "recover", "user_retry"}}

\* C38: with a human who answers skip, retry or abort only, a complex task over a
\* finite plan returns; no task is nested; each step's action is executed at most
\* three times (once, once by the automatic retry, once more if the human says
\* retry); the steps are begun in plan order, each at most once; every statement
\* moves the interpreter's position.
C38_TerminatesInOrder ==
    /\ [](/\ Depth <= 1
          /\ Depth = 1 =>
                LET f == Top IN
                /\ Cardinality(Executions(f)) <= 3
                /\ \A ev \in {"exec", "recover", "user_retry"} :
                      Cardinality({i \in DOMAIN f.log : f.log[i].ev = ev}) <= 1
                /\ f.step_idx <= Len(f.plan)
                /\ f.executed \in {f.step_idx, f.step_idx + 1})
    /\ [][(Depth = 1 /\ Depth' = 1) =>
             /\ Top'.step_idx \in {Top.step_idx, Top.step_idx + 1}
             /\ (Top.pc = "loop" /\ Top'.pc = "execute") => Top'.step_idx = Top.executed
             /\ Top'.executed >= Top.executed]_vars
    /\ [][Position' # Position]_vars
    /\ (Depth = 1 ~> Depth = 0)

\* C38 witness: the second step of a plan has been executed three times, the last
\* time because the human said retry
C38_Witness ==
    /\ Depth = 1
    /\ Top.step_idx = 1
    /\ Cardinality(Executions(Top)) = 3
    /\ Top.log[Len(Top.log)].ev = "user_retry"

====
